---- MODULE Spec2Model ----
(***************************************************************************)
(* Verification model of the GitHub scripts repository:                    *)
(*   - handle_GH_paging.makeCall (and its copy makeGitHubCall in           *)
(*     Gists/get_all_committers.py): the paginated, rate-limit-aware GET   *)
(*     loop                                   -> specification SpecPaging  *)
(*   - copy_GHE_issues.main and the phases it calls: the issue migration   *)
(*     run                                    -> specification Spec        *)
(*     (SpecRerun: the script is run twice)                                *)
(*   - the reference rewriting of patch_target_issues, over token strings  *)
(*                                            -> specification SpecRewrite *)
(***************************************************************************)
EXTENDS Integers, Sequences, FiniteSets, TLC

VARIABLES
    \* ---- makeCall / makeGitHubCall ----
    fn,          \* which function runs: "makeCall" or "makeGitHubCall"
    api_items,   \* N: the number of items the API holds for the endpoint
    per_page,    \* parameters['per_page']: the page size the API serves
    number,      \* kwargs['number'], None when absent
    maxretries,  \* kwargs['maxretries'] (MAX_RETRIES in makeGitHubCall)
    url,         \* the page the loop requests next (a page index), or None
    results,     \* the accumulated items
    retries,     \* the retry counter of the inner loop
    now,         \* int(time.time())
    pc,          \* "idle" | "while" | "get" | "done"
    outcome,     \* "running" | "returned" | "raised"
    returned,    \* the value returned to the caller (<<>> until then)
    raised,      \* the exception raised: [kind, status, url]
    calls,       \* history: one record per requests.get attempt
    limited,     \* history: number of rate-limited answers so far
    \* ---- copy_GHE_issues.main / copy_github_issues.main ----
    script,        \* "copy_GHE_issues" or "copy_github_issues"
    DEBUG,         \* the safety flag of the script (True as shipped)
    source_issues, \* the issues of the source repository, ascending
    source_labels, \* the label names of the source repository
    source_milestones, \* the milestones of the source: title -> state
    target_labels, \* the label names of the target repository
    target_milestones, \* the milestones of the target: title -> state
    next_number,   \* the number the target repository gives its next issue
    target_issues, \* the issues created in the target: number -> record
    m_pc,          \* the statement of main that runs next
    issues,        \* main's issues
    issue_map,     \* main's issue_map
    w_pc,          \* the statement of write_issues that runs next
    w_i,           \* write_issues: index of the issue of the for loop
    w_issue_map,   \* write_issues' local issue_map (its last value, once
                   \* write_issues has ended)
    w_milestones,  \* write_issues' target_milestones (their titles)
    c_i,           \* close_source_issues: index of the issue of the for loop
    error,         \* the exception main caught, "none" if none
    printed,       \* the map printed by main's finally block
    sent,          \* the changing requests (POST, PATCH, PUT) the latest
                   \* statement issued, in order
    served,        \* what the APIs served to the latest statement, as far
                   \* as its requests depend on it
    created,       \* history: <<source number, target number>> of every
                   \* create request that was answered 201
    attempted,     \* history: the source numbers this run has issued a
                   \* create request for
    closed_ms,     \* history: the target milestones this run has issued a
                   \* close request for
    rerun,         \* history: whether this is the second run of the script
    setup_clean,   \* history: the first run's setup_target_repo completed
                   \* and each of its create requests succeeded
    \* ---- the reference rewriting of patch_target_issues ----
    r_text,        \* the text fetched from the target (a body or a comment)
    r_key,         \* key: the source number of the issue being patched
    r_map,         \* issue_map
    r_pc,          \* "fetched" | "body" | "comment" | "idle"
    r_out,         \* new_body / new_comment
    r_patch,       \* whether a PATCH request carried r_out to the target
    r_again,       \* new_body / new_comment of a second patch_target_issues
                   \* over the patched text
    \* ---- define_epics ----
    e_map,         \* issue_map
    e_board,       \* the epics of the source board: epic number -> the
                   \* issue numbers the epic lists, in order
    e_todo,        \* source_epics still to be looked at by the for loop
    e_pc,          \* "loop" | "done" | "raised" | "idle"
    e_sent,        \* the convert_to_epic requests issued, in order
    e_reported,    \* what was printed about children that were not copied
    \* ---- the for loop of patch_target_issues ----
    p_map,         \* issue_map
    p_i,           \* index of the key of the for loop, in the order of the keys
    p_issue,       \* the local variable issue: <<the target number of the
                   \* issue it holds>>, <<>> before its first assignment
    p_reqs,        \* the requests the latest pass of the loop issued, in order
    p_pc,          \* "loop" | "done" | "raised" (UnboundLocalError) | "idle"
    \* ---- handle_zenhub_calls.make_request ----
    z_request,     \* the request of the running call: [url, method, params]
    z_maxretries,  \* maxretries of the running call
    z_budget,      \* history: maxretries of the top-level call
    z_now,         \* datetime.datetime.now(), in seconds
    z_calls,       \* history: the requests sent and their answers, in order
    z_pc,          \* "request" | "returned" | "raised" | "idle"
    z_result,      \* the value returned, or the exception raised
    \* ---- complete_pipeline_map and assign_issues_to_pipelines ----
    b_source,      \* what ZenHub serves as the source board
    b_target,      \* what ZenHub serves as the target board
    b_issue_map,   \* issue_map
    pipeline_map,  \* main's pipeline_map
    b_printed,     \* the source pipelines printed as having no target pipeline
    b_sent,        \* the move requests issued, in order
    b_pc,          \* "complete" | "assign" | "done" | "raised" | "idle"
    \* ---- get_asoc_results.APIInvoker.invoke ----
    a_pages,       \* the number of pages the list has on the server
    a_stack,       \* the running calls of invoke, the innermost last: the
                   \* page of the call's response, its status, the call's
                   \* items and the statement the call stands at
    a_requests,    \* history: the pages requested, in order
    a_outcome,     \* "running" | "returned" | "raised" | "idle"
    a_returned,    \* the value the outermost call returned, or the
                   \* exception it raised
    \* ---- get_asoc_results.wait_on_reports_and_print ----
    reports,       \* the list reports
    rp_next,       \* the index the iterator of the for loop stands at
    rp_ready,      \* the server: for each submitted report whether its
                   \* status is 'Ready'
    rp_downloaded, \* history: the downloads, each with the status polled
                   \* just before
    rp_pc          \* "while" | "for" | "sleep" | "done" | "idle"

pagingVars == <<fn, api_items, per_page, number, maxretries, url, results,
                retries, now, pc, outcome, returned, raised, calls, limited>>

configVars == <<script, DEBUG>>

sourceVars == <<source_issues, source_labels, source_milestones>>

targetVars == <<target_labels, target_milestones, next_number, target_issues>>

writeVars == <<w_pc, w_i, w_issue_map, w_milestones>>

histVars == <<created, attempted, closed_ms, rerun, setup_clean>>

mainVars == <<configVars, sourceVars, targetVars, writeVars, histVars, m_pc,
              issues, issue_map, c_i, error, printed, sent, served>>

rewriteVars == <<r_text, r_key, r_map, r_pc, r_out, r_patch, r_again>>

epicVars == <<e_map, e_board, e_todo, e_pc, e_sent, e_reported>>

patchVars == <<p_map, p_i, p_issue, p_reqs, p_pc>>

zenhubVars == <<z_request, z_maxretries, z_budget, z_now, z_calls, z_pc,
                z_result>>

pipelineVars == <<b_source, b_target, b_issue_map, pipeline_map, b_printed,
                  b_sent, b_pc>>

invokeVars == <<a_pages, a_stack, a_requests, a_outcome, a_returned>>

reportVars == <<reports, rp_next, rp_ready, rp_downloaded, rp_pc>>

\* the variables of the parts that are modelled on their own
partVars == <<patchVars, zenhubVars, pipelineVars, invokeVars, reportVars>>

\* what the actions of one part leave unchanged
patchRest == <<pagingVars, mainVars, rewriteVars, epicVars, zenhubVars,
               pipelineVars, invokeVars, reportVars>>
zenhubRest == <<pagingVars, mainVars, rewriteVars, epicVars, patchVars,
                pipelineVars, invokeVars, reportVars>>
pipelineRest == <<pagingVars, mainVars, rewriteVars, epicVars, patchVars,
                  zenhubVars, invokeVars, reportVars>>
invokeRest == <<pagingVars, mainVars, rewriteVars, epicVars, patchVars,
                zenhubVars, pipelineVars, reportVars>>
reportRest == <<pagingVars, mainVars, rewriteVars, epicVars, patchVars,
                zenhubVars, pipelineVars, invokeVars>>

vars == <<pagingVars, mainVars, rewriteVars, epicVars, partVars>>

-----------------------------------------------------------------------------
(* Bounds of the model *)
MaxItems == 3
MaxPerPage == 2
MaxNumber == 2
MaxRetries == 1
MaxRateLimits == 1
MaxWait == 1
MaxRemaining == 1
MaxIssues == 2
MaxComments == 2
DefaultPerPage == 1
MaxEpics == 1
MaxWords == 3
MaxRequests == 5
MaxColumns == 3
MaxPages == 4
MaxReports == 3

(* Program constants *)
None == -1
WAIT_TIME == 1
MAX_RETRIES == 1

Min(a, b) == IF a < b THEN a ELSE b

-----------------------------------------------------------------------------
(* The synthetic API: items 1..N served in pages of per_page items. *)

AllItems(n) == [i \in 1..n |-> i]

NumPages(n, pp) == IF n = 0 THEN 1 ELSE (n + pp - 1) \div pp

PageItems(n, pp, k) == SubSeq(AllItems(n), (k - 1) * pp + 1, Min(k * pp, n))

\* response.links.get('next'): the next page's URL, None on the last page
NextLink(n, pp, k) == IF k < NumPages(n, pp) THEN k + 1 ELSE None

Statuses == {200, 201, 403, 404, 409, 500}

-----------------------------------------------------------------------------
(* makeCall, src/handle_GH_paging.py *)

\* line 43: the item cap that ends the loop
CapReached(num, res) == num # None /\ Len(res) >= num

\* faulty variant: the cap is reached one failure early
RetriesExceededEarly(r, maxr) == r >= maxr

\* faulty variant: the cap is reached one failure late
RetriesExceededLate(r, maxr) == r > maxr + 1

\* lines 58-59: the retry cap
RetriesExceeded(r, maxr) == r > maxr

\* faulty variant: the failures of the pages before are carried over
RetriesAtPageKept(r) == r

\* line 45: the retry counter a page request starts with
RetriesAtPage(r) == 0

\* faulty variant: a page replaces what was accumulated
AccumulateOverwrite(res, new_results) == new_results

\* lines 78-81: accumulation of a page
Accumulate(res, new_results) ==
    IF Len(res) = 0 THEN new_results ELSE res \o new_results

\* faulty variant: every 403 is taken for a rate limit
IsRateLimitAny(remaining) == remaining >= 0

\* line 85: a 403 is a rate limit only with zero remaining quota
IsRateLimit(remaining) == remaining = 0

\* faulty variant: the wait ends one second before the reset
TimeToWaitShort(rate_limit_reset, t) == rate_limit_reset - t - 1

\* line 88
TimeToWait(rate_limit_reset, t) == rate_limit_reset - t

\* faulty variant: the result is never truncated
TruncateNever(res, num) == res

\* lines 109-112
Truncate(res, num) ==
    IF num = None \/ num > Len(res) THEN res ELSE SubSeq(res, 1, num)

\* faulty variant: 409 is not special-cased
StatusBranchNoEmpty(status) ==
    CASE status = 200 -> "ok"
      [] status = 403 -> "forbidden"
      [] OTHER -> "fatal"

\* faulty variant: every 2xx status is taken for a served page
StatusBranch2xx(status) ==
    CASE status < 300 -> "ok"
      [] status = 403 -> "forbidden"
      [] status = 409 -> "empty"
      [] OTHER -> "fatal"

\* lines 61, 82, 102, 106: the branch a response status takes
StatusBranch(status) ==
    CASE status = 200 -> "ok"
      [] status = 403 -> "forbidden"
      [] status = 409 -> "empty"
      [] OTHER -> "fatal"

NoError == [kind |-> "none", status |-> 0, url |-> None]

\* One requests.get attempt, as the history records it: kind "exception" when
\* requests.get raised, "response" when it returned a response.
Call(kind, status, remaining, reset) ==
    [kind |-> kind, url |-> url, at |-> now, acc |-> results, status |-> status,
     remaining |-> remaining, reset |-> reset]

Raise(kind, status) ==
    /\ pc' = "done"
    /\ outcome' = "raised"
    /\ raised' = [kind |-> kind, status |-> status, url |-> url]

\* the rewriting variables while another part is modelled
IdleRewrite ==
    /\ r_text = <<>> /\ r_key = 0 /\ r_map = <<>> /\ r_pc = "idle"
    /\ r_out = <<>> /\ r_patch = FALSE /\ r_again = <<>>

\* the define_epics variables while another part is modelled
IdleEpics ==
    /\ e_map = <<>> /\ e_board = <<>> /\ e_todo = <<>> /\ e_pc = "idle"
    /\ e_sent = <<>> /\ e_reported = <<>>

\* the variables of the loop of patch_target_issues while another part is
\* modelled
IdlePatch ==
    /\ p_map = <<>> /\ p_i = 0 /\ p_issue = <<>> /\ p_reqs = <<>>
    /\ p_pc = "idle"

\* the variables of make_request while another part is modelled
IdleZenhub ==
    /\ z_request = <<>> /\ z_maxretries = 0 /\ z_budget = 0 /\ z_now = 0
    /\ z_calls = <<>> /\ z_pc = "idle" /\ z_result = <<>>

\* the variables of the pipeline functions while another part is modelled
IdlePipeline ==
    /\ b_source = <<>> /\ b_target = <<>> /\ b_issue_map = <<>>
    /\ pipeline_map = <<>> /\ b_printed = {} /\ b_sent = <<>> /\ b_pc = "idle"

\* the variables of APIInvoker.invoke while another part is modelled
IdleInvoke ==
    /\ a_pages = 0 /\ a_stack = <<>> /\ a_requests = <<>>
    /\ a_outcome = "idle" /\ a_returned = <<>>

\* the variables of wait_on_reports_and_print while another part is modelled
IdleReports ==
    /\ reports = <<>> /\ rp_next = 0 /\ rp_ready = <<>>
    /\ rp_downloaded = <<>> /\ rp_pc = "idle"

\* the script get_asoc_results.py while the migration scripts are modelled
IdleAsoc ==
    /\ IdleInvoke
    /\ IdleReports

IdleParts ==
    /\ IdlePatch
    /\ IdleZenhub
    /\ IdlePipeline
    /\ IdleAsoc

\* the migration variables while only makeCall runs
IdleMain ==
    /\ script = "none" /\ DEBUG = TRUE /\ source_issues = <<>>
    /\ source_labels = {} /\ source_milestones = <<>>
    /\ target_labels = {} /\ target_milestones = <<>>
    /\ next_number = 1 /\ target_issues = <<>> /\ m_pc = "idle"
    /\ issues = <<>> /\ issue_map = <<>> /\ w_pc = "idle" /\ w_i = 0
    /\ w_issue_map = <<>> /\ w_milestones = {} /\ error = "none"
    /\ printed = <<>> /\ sent = <<>> /\ created = {} /\ attempted = {}
    /\ served = [what |-> "nothing"] /\ c_i = 1
    /\ closed_ms = {} /\ rerun = FALSE /\ setup_clean = FALSE

\* the makeCall variables while the migration run is modelled
IdlePaging ==
    /\ fn = "none" /\ api_items = 0 /\ per_page = 1 /\ number = None
    /\ maxretries = 0 /\ url = None /\ results = <<>> /\ retries = 0
    /\ now = 0 /\ pc = "idle" /\ outcome = "running" /\ returned = <<>>
    /\ raised = [kind |-> "none", status |-> 0, url |-> None]
    /\ calls = <<>> /\ limited = 0

InitPaging ==
    /\ fn \in {"makeCall", "makeGitHubCall"}
    /\ api_items \in 0..MaxItems
    /\ per_page \in 1..MaxPerPage
    /\ number \in IF fn = "makeCall" THEN {None} \cup (0..MaxNumber) ELSE {None}
    /\ maxretries \in IF fn = "makeCall" THEN 0..MaxRetries ELSE {MAX_RETRIES}
    /\ url = 1
    /\ results = <<>>
    /\ retries = 0
    /\ now = 0
    /\ pc = "while"
    /\ outcome = "running"
    /\ returned = <<>>
    /\ raised = NoError
    /\ calls = <<>>
    /\ limited = 0
    /\ IdleMain
    /\ IdleRewrite
    /\ IdleEpics
    /\ IdleParts

\* lines 42-45: the loop is entered for another page request
WhileEnter ==
    /\ pc = "while"
    /\ url # None
    /\ ~CapReached(number, results)
    /\ retries' = RetriesAtPage(retries)
    /\ pc' = "get"
    /\ UNCHANGED <<fn, api_items, per_page, number, maxretries, url, results,
                   now, outcome, returned, raised, calls, limited>>
    /\ UNCHANGED <<mainVars, rewriteVars, epicVars, partVars>>

\* lines 42-44, 109-112: the loop ends and the result is returned
Return ==
    /\ pc = "while"
    /\ url = None \/ CapReached(number, results)
    /\ returned' = Truncate(results, number)
    /\ outcome' = "returned"
    /\ pc' = "done"
    /\ UNCHANGED <<fn, api_items, per_page, number, maxretries, url, results,
                   retries, now, raised, calls, limited>>
    /\ UNCHANGED <<mainVars, rewriteVars, epicVars, partVars>>

\* lines 47-59: requests.get raises (connection error, timeout)
GetTransportError ==
    /\ pc = "get"
    /\ calls' = Append(calls, Call("exception", 0, 0, 0))
    /\ retries' = retries + 1
    /\ now' = now + WAIT_TIME
    /\ IF RetriesExceeded(retries', maxretries)
         THEN Raise("MaxRetries", 0)
         ELSE UNCHANGED <<pc, outcome, raised>>
    /\ UNCHANGED <<fn, api_items, per_page, number, maxretries, url, results,
                   returned, limited>>
    /\ UNCHANGED <<mainVars, rewriteVars, epicVars, partVars>>

\* lines 61-81: a page is served
GetOk ==
    /\ pc = "get"
    /\ \E status \in Statuses :
         /\ StatusBranch(status) = "ok"
         /\ calls' = Append(calls, Call("response", status, 0, 0))
    /\ results' = Accumulate(results, PageItems(api_items, per_page, url))
    /\ url' = NextLink(api_items, per_page, url)
    /\ pc' = "while"
    /\ UNCHANGED <<fn, api_items, per_page, number, maxretries, retries, now,
                   outcome, returned, raised, limited>>
    /\ UNCHANGED <<mainVars, rewriteVars, epicVars, partVars>>

\* lines 82-101: 403, a rate limit (sleep until the reset) or a fatal error
GetForbidden ==
    /\ pc = "get"
    /\ \E status \in Statuses, remaining \in 0..MaxRemaining,
          reset \in (now - 1)..(now + MaxWait) :
         /\ StatusBranch(status) = "forbidden"
         /\ remaining = 0 => limited < MaxRateLimits
         /\ calls' = Append(calls, Call("response", status, remaining, reset))
         /\ IF IsRateLimit(remaining)
              THEN /\ limited' = limited + 1
                   /\ IF TimeToWait(reset, now) < 0
                        \* time.sleep of a negative length raises ValueError
                        THEN Raise("ValueError", status) /\ UNCHANGED now
                        ELSE /\ now' = now + TimeToWait(reset, now)
                             /\ pc' = "while"
                             /\ UNCHANGED <<outcome, raised>>
              ELSE Raise("Exception", status) /\ UNCHANGED <<now, limited>>
    /\ UNCHANGED <<fn, api_items, per_page, number, maxretries, url, results,
                   retries, returned>>
    /\ UNCHANGED <<mainVars, rewriteVars, epicVars, partVars>>

\* lines 102-105: 409, an empty repository ends the pagination
GetEmpty ==
    /\ pc = "get"
    /\ \E status \in Statuses :
         /\ StatusBranch(status) = "empty"
         /\ calls' = Append(calls, Call("response", status, 0, 0))
    /\ url' = None
    /\ pc' = "while"
    /\ UNCHANGED <<fn, api_items, per_page, number, maxretries, results,
                   retries, now, outcome, returned, raised, limited>>
    /\ UNCHANGED <<mainVars, rewriteVars, epicVars, partVars>>

\* lines 106-107: any other status is fatal
GetFatal ==
    /\ pc = "get"
    /\ \E status \in Statuses :
         /\ StatusBranch(status) = "fatal"
         /\ calls' = Append(calls, Call("response", status, 0, 0))
         /\ Raise("Exception", status)
    /\ UNCHANGED <<fn, api_items, per_page, number, maxretries, url, results,
                   retries, now, returned, limited>>
    /\ UNCHANGED <<mainVars, rewriteVars, epicVars, partVars>>

NextPaging ==
    \/ WhileEnter
    \/ Return
    \/ GetTransportError
    \/ GetOk
    \/ GetForbidden
    \/ GetEmpty
    \/ GetFatal

SpecPaging == InitPaging /\ [][NextPaging]_vars

-----------------------------------------------------------------------------
(* Properties of makeCall, checked under SpecPaging *)

LastCall == calls[Len(calls)]

RateLimited(c) == c.kind = "response" /\ c.status = 403 /\ c.remaining = 0

\* the number of consecutive failed attempts that end with attempt i
RECURSIVE FailuresEndingAt(_)
FailuresEndingAt(i) ==
    IF i = 0 \/ calls[i].kind # "exception" THEN 0 ELSE 1 + FailuresEndingAt(i - 1)

\* C3: pagination completeness. When every request is answered 200 and no item
\* cap is given, the call returns exactly the N items in their original order
\* and has requested the pages 1..P once each, in order, for every page size.
C3_PaginationCompleteness ==
    (outcome = "returned" /\ number = None
       /\ \A i \in 1..Len(calls) : calls[i].kind = "response" /\ calls[i].status = 200)
    => /\ returned = AllItems(api_items)
       /\ [i \in 1..Len(calls) |-> calls[i].url]
            = [k \in 1..NumPages(api_items, per_page) |-> k]

C3_Witness ==
    /\ outcome = "returned" /\ number = None
    /\ \A i \in 1..Len(calls) : calls[i].kind = "response" /\ calls[i].status = 200
    /\ api_items = 3 /\ per_page = 2 /\ Len(calls) = 2

\* C4: rate-limit resumption. After a 403 with zero remaining quota and reset
\* time T no request is issued before T; once the wait is over the loop stands
\* at the same page with the same accumulated results, the next request is for
\* that same page, and a call that returns after a rate limit (no 409 having
\* cut it short) returns the items without a duplicate or a gap.
C4_RateLimitResumption ==
    /\ \A i \in 1..Len(calls) :
         RateLimited(calls[i]) =>
           /\ \A j \in (i + 1)..Len(calls) : calls[j].at >= calls[i].reset
           /\ i < Len(calls) =>
                calls[i + 1].url = calls[i].url /\ calls[i + 1].acc = calls[i].acc
           /\ (i = Len(calls) /\ outcome = "running") =>
                /\ url = calls[i].url /\ results = calls[i].acc
                /\ now >= calls[i].reset
                /\ pc \in {"while", "get"}
    /\ (outcome = "returned"
          /\ (\E i \in 1..Len(calls) : RateLimited(calls[i]))
          /\ (\A i \in 1..Len(calls) : calls[i].status # 409))
       => returned = Truncate(AllItems(api_items), number)

C4_Witness ==
    /\ outcome = "returned" /\ Len(returned) = 3 /\ Len(calls) >= 3
    /\ RateLimited(calls[2]) /\ calls[2].reset > calls[2].at
    /\ calls[3].url = 2

\* C5: a 403 with nonzero remaining quota is fatal. It is the last request of
\* the call, the call has raised with the status and the URL, and no time was
\* spent sleeping after it.
C5_ForbiddenIsFatal ==
    \A i \in 1..Len(calls) :
      (calls[i].kind = "response" /\ calls[i].status = 403 /\ calls[i].remaining # 0)
      => /\ i = Len(calls)
         /\ pc = "done" /\ outcome = "raised"
         /\ raised = [kind |-> "Exception", status |-> 403, url |-> calls[i].url]
         /\ now = calls[i].at

C5_Witness ==
    /\ Len(calls) = 2 /\ LastCall.kind = "response"
    /\ LastCall.status = 403 /\ LastCall.remaining # 0
    /\ outcome = "raised"

\* C6: 409 termination. A 409 on any page is the last request of the call; the
\* call does not raise, and what it returns is exactly what had been
\* accumulated from the pages before the 409.
C6_ConflictEndsPagination ==
    \A i \in 1..Len(calls) :
      (calls[i].kind = "response" /\ calls[i].status = 409)
      => /\ i = Len(calls)
         /\ outcome # "raised"
         /\ url = None
         /\ outcome = "returned" => returned = calls[i].acc

C6_Witness ==
    /\ outcome = "returned" /\ Len(calls) = 2
    /\ LastCall.status = 409 /\ Len(returned) = 2

\* C7: every status other than 200, 403 and 409 is fatal. The response is the
\* last request of the call, the call has raised an error carrying that status
\* and the URL of the failing page, and nothing was returned.
C7_OtherStatusIsFatal ==
    \A i \in 1..Len(calls) :
      (calls[i].kind = "response" /\ calls[i].status \notin {200, 403, 409})
      => /\ i = Len(calls)
         /\ pc = "done" /\ outcome = "raised"
         /\ raised = [kind |-> "Exception", status |-> calls[i].status,
                      url |-> calls[i].url]
         /\ returned = <<>>

C7_Witness ==
    /\ Len(calls) = 2 /\ LastCall.kind = "response" /\ LastCall.status = 201
    /\ LastCall.url = 2 /\ Len(LastCall.acc) > 0 /\ outcome = "raised"

\* C8: bounded transport retry. A failed attempt is followed by a retry of the
\* same URL WAIT_TIME later as long as at most maxretries attempts of this page
\* request have failed; the failure number maxretries + 1 raises the
\* "Max retries" error naming the URL, so one page request makes at most
\* maxretries + 1 attempts.
C8_BoundedRetry ==
    /\ retries <= maxretries + 1
    /\ \A i \in 1..Len(calls) :
         calls[i].kind = "exception" =>
           /\ FailuresEndingAt(i) <= maxretries + 1
           /\ i < Len(calls) =>
                /\ FailuresEndingAt(i) <= maxretries
                /\ calls[i + 1].url = calls[i].url
                /\ calls[i + 1].at = calls[i].at + WAIT_TIME
           /\ i = Len(calls) =>
                IF FailuresEndingAt(i) = maxretries + 1
                  THEN /\ outcome = "raised"
                       /\ raised = [kind |-> "MaxRetries", status |-> 0,
                                    url |-> calls[i].url]
                  ELSE /\ outcome = "running" /\ pc = "get"
                       /\ url = calls[i].url /\ retries = FailuresEndingAt(i)

C8_Witness ==
    /\ maxretries = 1 /\ Len(calls) = 3
    /\ calls[1].kind = "response"
    /\ calls[2].kind = "exception" /\ calls[3].kind = "exception"
    /\ outcome = "raised" /\ raised.kind = "MaxRetries" /\ raised.url = 2

\* C9: item cap. With number = m no page is requested once m items are
\* accumulated, and a call that returns (no 409 having cut it short) returns
\* exactly the first m items, or all N items when N < m.
C9_ItemCap ==
    number # None =>
      /\ \A i \in 1..Len(calls) : Len(calls[i].acc) < number
      /\ (outcome = "returned" /\ \A i \in 1..Len(calls) : calls[i].status # 409)
         => returned = SubSeq(AllItems(api_items), 1, Min(number, api_items))

C9_Witness ==
    /\ number = 1 /\ per_page = 2 /\ api_items = 3
    /\ outcome = "returned" /\ returned = <<1>> /\ Len(calls) = 1

\* C23: rate limiting is never an error. A 403 response with zero remaining
\* quota never makes makeCall raise, whatever the reset timestamp is (one that
\* is not later than the current time included): the call waits and asks for
\* the same page again.
C23_RateLimitNeverRaises ==
    \A i \in 1..Len(calls) :
        RateLimited(calls[i]) =>
          /\ ~(i = Len(calls) /\ outcome = "raised")
          /\ i < Len(calls) => calls[i + 1].url = calls[i].url

\* The requests one invocation can make: every page is answered once, a rate
\* limit repeats a page request, and each answer is preceded by at most
\* maxretries failed attempts (the streak that raises takes the place of one
\* answer).
CallBound(pages, maxr) == (pages + MaxRateLimits) * (maxr + 1)

\* the scheduling makeCall relies on: the process keeps running, and every
\* requests.get it issues comes back with a response or an exception
FairSpecPaging == SpecPaging /\ WF_vars(NextPaging)

\* C27: termination. When the API serves a finite chain of pages and answers
\* "rate limited" at most MaxRateLimits times, every makeCall invocation ends
\* with a returned result or a raised error, after a bounded number of
\* requests.
C27_MakeCallTerminates ==
    /\ <>(outcome \in {"returned", "raised"})
    /\ [](Len(calls) <= CallBound(NumPages(api_items, per_page), maxretries))

C27_Witness ==
    /\ outcome = "returned" /\ limited = 1 /\ Len(returned) = 3
    /\ \E i \in 1..Len(calls) : calls[i].kind = "exception"
    /\ Len(calls) = CallBound(NumPages(api_items, per_page), maxretries)

\* the attempts of the call so far that raised, and those that were answered
Failed == {i \in 1..Len(calls) : calls[i].kind = "exception"}
Answered == {i \in 1..Len(calls) : calls[i].kind = "response"}

\* C37: the transport retry budget is per page request. The retry counter
\* counts only the failures since the last answer, so it is zero at the first
\* attempt of every page request; an attempt that fails is retried whenever at
\* most maxretries attempts have failed since the last answer, however many
\* failed on earlier pages; and a call that returns has survived at most
\* maxretries failures for each page request it made.
C37_RetryBudgetPerPage ==
    /\ pc = "get" => retries = FailuresEndingAt(Len(calls))
    /\ \A i \in Failed :
         (FailuresEndingAt(i) <= maxretries /\ i = Len(calls))
         => outcome = "running" /\ pc = "get" /\ url = calls[i].url
    /\ outcome = "returned"
         => Cardinality(Failed) <= Cardinality(Answered) * maxretries

\* two pages, each fetched at the second attempt: maxretries failures per page
C37_Witness ==
    /\ outcome = "returned" /\ maxretries = 1 /\ limited = 0
    /\ NumPages(api_items, per_page) = 2 /\ returned = AllItems(api_items)
    /\ Len(calls) = 4 /\ Failed = {1, 3}
    /\ Cardinality(Failed) = NumPages(api_items, per_page) * maxretries

-----------------------------------------------------------------------------
(* The migration run: main and the functions it calls,                     *)
(* src/copy_GHE_issues.py (script "copy_GHE_issues") and                   *)
(* src/copy_github_issues.py (script "copy_github_issues", the same run    *)
(* without the ZenHub phases).                                             *)

\* the names of the labels and the titles of the milestones of the repositories
LabelNames == {"bug"}
MilestoneTitles == {"Sprint 12"}

\* issue['milestone'] is None
NoMilestone == "none"

\* the issues of the numbers in S, ascending ('direction': 'asc'), issue n
\* being in state st[n] and attached to milestone ms[n]
RECURSIVE IssueSeq(_, _, _)
IssueSeq(S, st, ms) ==
    IF S = {} THEN <<>>
    ELSE LET m == CHOOSE x \in S : \A y \in S : x <= y
         IN  <<[number |-> m, state |-> st[m], milestone |-> ms[m]]>>
               \o IssueSeq(S \ {m}, st, ms)

\* the numbers in S, ascending
RECURSIVE Ascending(_)
Ascending(S) ==
    IF S = {} THEN <<>>
    ELSE LET m == CHOOSE x \in S : \A y \in S : x <= y
         IN  <<m>> \o Ascending(S \ {m})

\* the names in S in the order the API lists them
RECURSIVE Listed(_)
Listed(S) ==
    IF S = {} THEN <<>>
    ELSE LET m == CHOOSE x \in S : TRUE
         IN  <<m>> \o Listed(S \ {m})

\* a request that changes the system it is sent to: method is POST, PATCH or
\* PUT, to is "source", "target", "source_zh" or "target_zh"
Req(method, to, what, id) ==
    [method |-> method, to |-> to, what |-> what, id |-> id]

\* the latest statement read nothing its requests depend on
Nothing == [what |-> "nothing"]

\* one request per element of the sequence ids
ReqsFor(method, to, what, ids) ==
    [k \in 1..Len(ids) |-> Req(method, to, what, ids[k])]

\* faulty variant: the milestones are closed before the issues are written
PhasesOfCloseFirst(sc) ==
    <<"read_issues", "setup_target_repo", "close_target_issues",
      "write_issues", "patch_target_issues", "patch_source_issues",
      "close_source_issues">>

\* the statements of main's try block, in order
PhasesOf(sc) ==
    IF sc = "copy_GHE_issues"
      THEN <<"read_issues", "setup_target_repo", "complete_pipeline_map",
             "write_issues", "patch_target_issues", "add_estimates",
             "assign_issues_to_pipelines", "define_epics",
             "close_target_issues", "patch_source_issues",
             "close_source_issues">>
      ELSE <<"read_issues", "setup_target_repo", "write_issues",
             "patch_target_issues", "close_target_issues",
             "patch_source_issues", "close_source_issues">>

\* faulty variant: no statement is guarded
GatedNone(p) == FALSE

\* 'if DEBUG is False:' guards the two statements that change the source
Gated(p) == p \in {"patch_source_issues", "close_source_issues"}

RECURSIVE FirstRunnable(_, _)
FirstRunnable(seq, i) ==
    IF i > Len(seq) THEN "finally"
    ELSE IF Gated(seq[i]) /\ DEBUG # FALSE THEN FirstRunnable(seq, i + 1)
    ELSE seq[i]

\* the statement main runs once statement p has completed
After(p) ==
    LET seq == PhasesOf(script)
        i == CHOOSE k \in 1..Len(seq) : seq[k] = p
    IN  FirstRunnable(seq, i + 1)

should_we_include_this_issue(issue) == TRUE

\* faulty variant: main reads the issues of every state
ReadStateAll == "all"

\* line 657: read_issues('open')
ReadState == "open"

\* read_issues(state), lines 116-127: the API serves the issues of the state
\* asked for, ascending; the included ones are kept
read_issues(state) ==
    SelectSeq(source_issues,
              LAMBDA issue : /\ state \in {"all", issue.state}
                             /\ should_we_include_this_issue(issue))

\* the statuses the target answers a create request with
PostStatuses == {201, 404, 422, 502}

\* line 289: 201 means a new issue was created
IssueCreated(status) == status = 201

\* faulty variant: the entry maps the source number to itself
RecordMappingSource(map, issue_number, new_number) ==
    (issue_number :> issue_number) @@ map

\* line 291: issue_map[issue['number']] = new_issue_results['number']
RecordMapping(map, issue_number, new_number) ==
    (issue_number :> new_number) @@ map

\* faulty variant: a label or milestone is created whatever the target holds
MissingAlways(name, existing) == TRUE

\* lines 209-210 and 226-227: no element of the target list has the name
MissingIn(name, existing) == name \notin existing

\* line 307: what one GET of comments_url returns, the comments (numbered
\* 1..total in their order) of the first page the API serves, of
\* DefaultPerPage comments as no per_page is given; the next link is not
\* followed
FirstPage(total, page) == [k \in 1..Min(total, page) |-> k]

\* lines 313-316: the request that posts comment k of the source issue,
\* prefixed with its date and author, to target issue t
CommentReq(t, k) ==
    [method |-> "POST", to |-> "target", what |-> "comment", id |-> t,
     copy_of |-> k]

\* line 603: if issue['state'] == 'closed'
ShouldClose(issue) == issue.state = "closed"

\* an exception leaves the try block: main's except clause runs next
Abort(what) ==
    /\ error' = what
    /\ m_pc' = "except"

\* the statement completes: main goes on with the next one
Continue(p) ==
    /\ m_pc' = After(p)
    /\ UNCHANGED error

Init ==
    /\ script \in {"copy_GHE_issues", "copy_github_issues"}
    /\ DEBUG \in BOOLEAN
    /\ source_labels \in SUBSET LabelNames
    /\ \E T \in SUBSET MilestoneTitles :
         source_milestones \in [T -> {"open", "closed"}]
    /\ \E S \in SUBSET (1..MaxIssues) :
         \E st \in [S -> {"open", "closed"}] :
           \E ms \in [S -> {NoMilestone} \cup DOMAIN source_milestones] :
             \* (the milestone of a closed issue is never looked at)
             /\ \A n \in S : st[n] = "closed" => ms[n] = NoMilestone
             /\ source_issues = IssueSeq(S, st, ms)
    /\ target_labels = {}
    /\ target_milestones = <<>>
    /\ next_number = 1
    /\ target_issues = <<>>
    /\ m_pc = "read_issues"
    /\ issues = <<>>
    /\ issue_map = <<>>
    /\ w_pc = "idle"
    /\ w_i = 0
    /\ w_issue_map = <<>>
    /\ w_milestones = {}
    /\ error = "none"
    /\ printed = <<>>
    /\ sent = <<>>
    /\ served = Nothing
    /\ c_i = 1
    /\ created = {}
    /\ attempted = {}
    /\ closed_ms = {}
    /\ rerun = FALSE
    /\ setup_clean = FALSE
    /\ IdlePaging
    /\ IdleRewrite
    /\ IdleEpics
    /\ IdleParts

\* line 657, read_issues lines 116-127
ReadIssues ==
    /\ m_pc = "read_issues"
    /\ \/ Abort("read_issues") /\ UNCHANGED issues
       \/ issues' = read_issues(ReadState) /\ Continue("read_issues")
    /\ sent' = <<>>
    /\ UNCHANGED <<configVars, sourceVars, targetVars, writeVars, histVars,
                   issue_map, printed>>
    /\ served' = Nothing
    /\ UNCHANGED c_i
    /\ UNCHANGED <<pagingVars, rewriteVars, epicVars, partVars>>

\* line 660, setup_target_repo lines 201-237: each source label and milestone
\* that the target lacks is posted to the target, which creates those of okL
\* and okM and refuses the others; makeCall may raise before the labels or
\* before the milestones
SetupTargetRepo ==
    /\ m_pc = "setup_target_repo"
    /\ LET missing_l == {l \in source_labels : MissingIn(l, target_labels)}
           missing_m == {t \in DOMAIN source_milestones :
                           MissingIn(t, DOMAIN target_milestones)}
           label_posts == ReqsFor("POST", "target", "label", Listed(missing_l))
           milestone_posts ==
               ReqsFor("POST", "target", "milestone", Listed(missing_m))
       IN  \/ /\ Abort("setup_target_repo: labels")
              /\ sent' = <<>>
              /\ UNCHANGED <<targetVars, setup_clean>>
           \/ \E okL \in SUBSET missing_l :
                /\ target_labels' = target_labels \cup okL
                /\ \/ /\ Abort("setup_target_repo: milestones")
                      /\ sent' = label_posts
                      /\ UNCHANGED <<target_milestones, setup_clean>>
                   \/ \E okM \in SUBSET missing_m :
                        /\ target_milestones' =
                             target_milestones @@ [t \in okM |-> "open"]
                        /\ sent' = label_posts \o milestone_posts
                        /\ setup_clean' = IF rerun THEN setup_clean
                                         ELSE okL = missing_l /\ okM = missing_m
                        /\ Continue("setup_target_repo")
                /\ UNCHANGED <<next_number, target_issues>>
    /\ UNCHANGED <<configVars, sourceVars, writeVars, issues, issue_map,
                   printed, created, attempted, closed_ms, rerun>>
    /\ served' = Nothing
    /\ UNCHANGED c_i
    /\ UNCHANGED <<pagingVars, rewriteVars, epicVars, partVars>>

\* line 663, complete_pipeline_map lines 159-192: the two boards are read
CompletePipelineMap ==
    /\ m_pc = "complete_pipeline_map"
    /\ \/ Abort("complete_pipeline_map")
       \/ Continue("complete_pipeline_map")
    /\ sent' = <<>>
    /\ UNCHANGED <<configVars, sourceVars, targetVars, writeVars, histVars,
                   issues, issue_map, printed>>
    /\ served' = Nothing
    /\ UNCHANGED c_i
    /\ UNCHANGED <<pagingVars, rewriteVars, epicVars, partVars>>

\* lines 248-251: write_issues starts; makeCall for the target milestones
\* (no 'state' parameter: the API lists the open ones) may raise
WriteIssuesBegin ==
    /\ m_pc = "write_issues" /\ w_pc = "idle"
    /\ \/ /\ Abort("write_issues: makeCall")
          /\ UNCHANGED writeVars
       \/ /\ w_issue_map' = <<>>
          /\ w_milestones' = {t \in DOMAIN target_milestones :
                                target_milestones[t] = "open"}
          /\ w_i' = 1
          /\ w_pc' = "post"
          /\ UNCHANGED <<m_pc, error>>
    /\ sent' = <<>>
    /\ UNCHANGED <<configVars, sourceVars, targetVars, histVars, issues,
                   issue_map, printed>>
    /\ served' = Nothing
    /\ UNCHANGED c_i
    /\ UNCHANGED <<pagingVars, rewriteVars, epicVars, partVars>>

\* lines 252-292, 320-323: the create request of issue w_i and its answer
WritePost ==
    /\ m_pc = "write_issues" /\ w_pc = "post" /\ w_i <= Len(issues)
    /\ \/ \* requests.post raises
          /\ Abort("write_issues: requests.post")
          /\ sent' = <<>>
          /\ UNCHANGED <<next_number, target_issues, writeVars, created,
                         attempted>>
       \/ \E status \in PostStatuses, json_ok \in BOOLEAN :
            LET issue == issues[w_i]
                made == status = 201
                new_number == IF made THEN next_number ELSE None
            IN  /\ made => json_ok
                /\ sent' = <<Req("POST", "target", "issue", issue.number)>>
                /\ attempted' = attempted \cup {issue.number}
                \* the target repository
                /\ IF made
                     THEN /\ target_issues' =
                               (next_number :>
                                  [source |-> issue.number,
                                   milestone |->
                                     IF issue.milestone \in w_milestones
                                       THEN issue.milestone
                                       ELSE NoMilestone]) @@ target_issues
                          /\ next_number' = next_number + 1
                          /\ created' = created \cup {<<issue.number, next_number>>}
                     ELSE UNCHANGED <<target_issues, next_number, created>>
                \* write_issues
                /\ IF IssueCreated(status)
                     THEN /\ w_issue_map' =
                               RecordMapping(w_issue_map, issue.number, new_number)
                          /\ w_pc' = IF script = "copy_GHE_issues"
                                       THEN "events" ELSE "comments"
                          /\ UNCHANGED <<w_i, m_pc, error>>
                     ELSE IF json_ok
                       THEN /\ w_i' = w_i + 1
                            /\ UNCHANGED <<w_pc, w_issue_map, m_pc, error>>
                       \* response.json() raises on a body that is not JSON
                       ELSE /\ Abort("write_issues: response.json")
                            /\ UNCHANGED <<w_pc, w_i, w_issue_map>>
    /\ UNCHANGED <<configVars, sourceVars, target_labels, target_milestones,
                   w_milestones, issues, issue_map, printed, closed_ms, rerun,
                   setup_clean>>
    /\ served' = Nothing
    /\ UNCHANGED c_i
    /\ UNCHANGED <<pagingVars, rewriteVars, epicVars, partVars>>

\* lines 294-302: the ZenHub events of the source issue are read
WriteEvents ==
    /\ m_pc = "write_issues" /\ w_pc = "events"
    /\ \/ Abort("write_issues: zh.make_request") /\ UNCHANGED w_pc
       \/ w_pc' = "comments" /\ UNCHANGED <<m_pc, error>>
    /\ sent' = <<>>
    /\ UNCHANGED <<configVars, sourceVars, targetVars, histVars, issues,
                   issue_map, w_i, w_issue_map, w_milestones, printed>>
    /\ served' = Nothing
    /\ UNCHANGED c_i
    /\ UNCHANGED <<pagingVars, rewriteVars, epicVars, partVars>>

\* lines 304-318: the comments of the source issue are read with one
\* requests.get and, when it is answered 200 (with the first page of the
\* total comments the issue has), each comment of the page is posted to the
\* new target issue
WriteComments ==
    /\ m_pc = "write_issues" /\ w_pc = "comments"
    /\ LET t == w_issue_map[issues[w_i].number]
       IN  \/ \* requests.get raises
              /\ Abort("write_issues: comments")
              /\ sent' = <<>>
              /\ served' = Nothing
              /\ UNCHANGED <<w_pc, w_i>>
           \/ \E get_ok \in BOOLEAN, total \in 0..MaxComments :
                LET read == IF get_ok THEN FirstPage(total, DefaultPerPage)
                            ELSE <<>>
                IN  /\ ~get_ok => total = 0
                    /\ served' = [what |-> "comments", total |-> total,
                                   get_ok |-> get_ok]
                    /\ sent' = [k \in 1..Len(read) |->
                                  CommentReq(t, read[k])]
                    /\ w_i' = w_i + 1
                    /\ w_pc' = "post"
                    /\ UNCHANGED <<m_pc, error>>
    /\ UNCHANGED <<configVars, sourceVars, targetVars, histVars, issues,
                   issue_map, w_issue_map, w_milestones, c_i, printed>>
    /\ UNCHANGED <<pagingVars, rewriteVars, epicVars, partVars>>

\* lines 325-327 and 667: write_issues returns, main binds issue_map
WriteIssuesReturn ==
    /\ m_pc = "write_issues" /\ w_pc = "post" /\ w_i > Len(issues)
    /\ issue_map' = w_issue_map
    /\ w_pc' = "idle"
    /\ m_pc' = After("write_issues")
    /\ sent' = <<>>
    /\ UNCHANGED <<configVars, sourceVars, targetVars, histVars, issues, w_i,
                   w_issue_map, w_milestones, error, printed>>
    /\ served' = Nothing
    /\ UNCHANGED c_i
    /\ UNCHANGED <<pagingVars, rewriteVars, epicVars, partVars>>

\* line 670, patch_target_issues lines 337-409: the target issues of the map
\* are read and those of patched, whose body or comments hold a reference,
\* are patched
PatchTargetIssues ==
    /\ m_pc = "patch_target_issues"
    /\ \/ Abort("patch_target_issues") /\ sent' = <<>>
       \/ \E patched \in SUBSET DOMAIN issue_map :
            /\ sent' = [k \in 1..Cardinality(patched) |->
                          Req("PATCH", "target", "issue",
                              issue_map[Ascending(patched)[k]])]
            /\ Continue("patch_target_issues")
    /\ UNCHANGED <<configVars, sourceVars, targetVars, writeVars, histVars,
                   issues, issue_map, printed>>
    /\ served' = Nothing
    /\ UNCHANGED c_i
    /\ UNCHANGED <<pagingVars, rewriteVars, epicVars, partVars>>

\* line 673, add_estimates lines 485-499: for each issue read from the source
\* whose ZenHub entry holds an estimate (those of est), the estimate is put on
\* target issue issue_map[number]; the subscript raises KeyError when the
\* number is not a key of the map
AddEstimates ==
    /\ m_pc = "add_estimates"
    /\ \/ Abort("add_estimates: zh.make_request") /\ sent' = <<>>
       \/ \E est \in SUBSET {issues[i].number : i \in 1..Len(issues)} :
            LET unmapped == est \ DOMAIN issue_map
                first == CHOOSE x \in unmapped : \A y \in unmapped : x <= y
                done == IF unmapped = {} THEN est
                        ELSE {n \in est : n < first}
            IN  /\ sent' = [k \in 1..Cardinality(done) |->
                              Req("PUT", "target_zh", "estimate",
                                  issue_map[Ascending(done)[k]])]
                /\ IF unmapped = {}
                     THEN Continue("add_estimates")
                     ELSE Abort("add_estimates: KeyError")
    /\ UNCHANGED <<configVars, sourceVars, targetVars, writeVars, histVars,
                   issues, issue_map, printed>>
    /\ served' = Nothing
    /\ UNCHANGED c_i
    /\ UNCHANGED <<pagingVars, rewriteVars, epicVars, partVars>>

\* line 676, assign_issues_to_pipelines lines 507-527: the issues of the map
\* that stand in a mapped pipeline of the source board (those of moved) are
\* moved on the target board
AssignIssuesToPipelines ==
    /\ m_pc = "assign_issues_to_pipelines"
    /\ \/ Abort("assign_issues_to_pipelines") /\ sent' = <<>>
       \/ \E moved \in SUBSET DOMAIN issue_map :
            /\ sent' = [k \in 1..Cardinality(moved) |->
                          Req("POST", "target_zh", "moves",
                              issue_map[Ascending(moved)[k]])]
            /\ Continue("assign_issues_to_pipelines")
    /\ UNCHANGED <<configVars, sourceVars, targetVars, writeVars, histVars,
                   issues, issue_map, printed>>
    /\ served' = Nothing
    /\ UNCHANGED c_i
    /\ UNCHANGED <<pagingVars, rewriteVars, epicVars, partVars>>

\* line 679, define_epics lines 537-569: the source epics that are keys of
\* the map (those of epics) are made epics on the target board
DefineEpics ==
    /\ m_pc = "define_epics"
    /\ \/ Abort("define_epics") /\ sent' = <<>>
       \/ \E epics \in SUBSET DOMAIN issue_map :
            /\ sent' = [k \in 1..Cardinality(epics) |->
                          Req("POST", "target_zh", "convert_to_epic",
                              issue_map[Ascending(epics)[k]])]
            /\ Continue("define_epics")
    /\ UNCHANGED <<configVars, sourceVars, targetVars, writeVars, histVars,
                   issues, issue_map, printed>>
    /\ served' = Nothing
    /\ UNCHANGED c_i
    /\ UNCHANGED <<pagingVars, rewriteVars, epicVars, partVars>>

\* line 683, close_target_issues lines 579-610: first a close request for the
\* target milestone of each closed source milestone (the target closes those
\* of okM), then one for the target issue of each issue that ShouldClose; the
\* subscript issue_map[number] raises KeyError when the number is not a key
CloseTargetIssues ==
    /\ m_pc = "close_target_issues"
    /\ \/ /\ Abort("close_target_issues: makeCall")
          /\ sent' = <<>>
          /\ UNCHANGED <<target_milestones, closed_ms>>
       \/ LET to_close == {t \in DOMAIN source_milestones :
                             /\ source_milestones[t] = "closed"
                             /\ t \in DOMAIN target_milestones}
              closing == {issues[i].number : i \in
                            {j \in 1..Len(issues) : ShouldClose(issues[j])}}
              unmapped == closing \ DOMAIN issue_map
              first == CHOOSE x \in unmapped : \A y \in unmapped : x <= y
              done == IF unmapped = {} THEN closing
                      ELSE {n \in closing : n < first}
          IN  \E okM \in SUBSET to_close :
                /\ target_milestones' =
                     [t \in DOMAIN target_milestones |->
                        IF t \in okM THEN "closed" ELSE target_milestones[t]]
                /\ closed_ms' = closed_ms \cup to_close
                /\ sent' = ReqsFor("PATCH", "target", "milestone",
                                   Listed(to_close))
                             \o [k \in 1..Cardinality(done) |->
                                   Req("PATCH", "target", "issue",
                                       issue_map[Ascending(done)[k]])]
                /\ IF unmapped = {}
                     THEN Continue("close_target_issues")
                     ELSE Abort("close_target_issues: KeyError")
    /\ UNCHANGED <<configVars, sourceVars, target_labels, next_number,
                   target_issues, writeVars, issues, issue_map, printed,
                   created, attempted, rerun, setup_clean>>
    /\ served' = Nothing
    /\ UNCHANGED c_i
    /\ UNCHANGED <<pagingVars, rewriteVars, epicVars, partVars>>

\* lines 686-687, patch_source_issues lines 419-477: the source issues of
\* every state are read and those of patched, which refer to an issue of the
\* map, are patched in the source
PatchSourceIssues ==
    /\ m_pc = "patch_source_issues"
    /\ \/ Abort("patch_source_issues") /\ sent' = <<>>
       \/ \E patched \in SUBSET {source_issues[i].number :
                                   i \in 1..Len(source_issues)} :
            /\ DOMAIN issue_map = {} => patched = {}
            /\ sent' = ReqsFor("PATCH", "source", "issue", Ascending(patched))
            /\ Continue("patch_source_issues")
    /\ UNCHANGED <<configVars, sourceVars, targetVars, writeVars, histVars,
                   issues, issue_map, printed>>
    /\ served' = Nothing
    /\ UNCHANGED c_i
    /\ UNCHANGED <<pagingVars, rewriteVars, epicVars, partVars>>

\* lines 690-691, close_source_issues lines 621-641: one pass of the for
\* loop. An issue that is a key of the map gets a comment request and then a
\* close request in the source; an answer other than 201 to the comment
\* request is printed and the close request follows all the same
CloseSourceIssue ==
    /\ m_pc = "close_source_issues" /\ c_i <= Len(issues)
    /\ LET issue == issues[c_i]
       IN  IF issue.number \notin DOMAIN issue_map
             THEN /\ sent' = <<>>
                  /\ served' = Nothing
                  /\ c_i' = c_i + 1
                  /\ UNCHANGED <<source_issues, m_pc, error>>
             ELSE \/ \* requests.post or requests.patch raises
                     /\ Abort("close_source_issues")
                     /\ sent' = <<>>
                     /\ served' = Nothing
                     /\ UNCHANGED <<source_issues, c_i>>
                  \/ \E commented \in BOOLEAN, closed \in BOOLEAN :
                       /\ source_issues' =
                            [i \in 1..Len(source_issues) |->
                               IF closed /\ source_issues[i].number = issue.number
                                 THEN [source_issues[i] EXCEPT !.state = "closed"]
                                 ELSE source_issues[i]]
                       /\ served' = [what |-> "close_source",
                                      id |-> issue.number,
                                      commented |-> commented,
                                      closed |-> closed]
                       /\ sent' = <<Req("POST", "source", "comment", issue.number),
                                    Req("PATCH", "source", "issue", issue.number)>>
                       /\ c_i' = c_i + 1
                       /\ UNCHANGED <<m_pc, error>>
    /\ UNCHANGED <<configVars, source_labels, source_milestones, targetVars,
                   writeVars, histVars, issues, issue_map, printed>>
    /\ UNCHANGED <<pagingVars, rewriteVars, epicVars, partVars>>

\* the for loop of line 621 ends and close_source_issues returns
CloseSourceIssuesReturn ==
    /\ m_pc = "close_source_issues" /\ c_i > Len(issues)
    /\ Continue("close_source_issues")
    /\ sent' = <<>>
    /\ served' = Nothing
    /\ UNCHANGED <<configVars, sourceVars, targetVars, writeVars, histVars,
                   issues, issue_map, c_i, printed>>
    /\ UNCHANGED <<pagingVars, rewriteVars, epicVars, partVars>>

\* lines 693-695: the exception is printed
Except ==
    /\ m_pc = "except"
    /\ m_pc' = "finally"
    /\ sent' = <<>>
    /\ UNCHANGED <<configVars, sourceVars, targetVars, writeVars, histVars,
                   issues, issue_map, error, printed>>
    /\ served' = Nothing
    /\ UNCHANGED c_i
    /\ UNCHANGED <<pagingVars, rewriteVars, epicVars, partVars>>

\* lines 696-700: main's issue_map is printed
Finally ==
    /\ m_pc = "finally"
    /\ printed' = issue_map
    /\ m_pc' = "exit"
    /\ sent' = <<>>
    /\ UNCHANGED <<configVars, sourceVars, targetVars, writeVars, histVars,
                   issues, issue_map, error>>
    /\ served' = Nothing
    /\ UNCHANGED c_i
    /\ UNCHANGED <<pagingVars, rewriteVars, epicVars, partVars>>

Next ==
    \/ ReadIssues
    \/ SetupTargetRepo
    \/ CompletePipelineMap
    \/ WriteIssuesBegin
    \/ WritePost
    \/ WriteEvents
    \/ WriteComments
    \/ WriteIssuesReturn
    \/ PatchTargetIssues
    \/ AddEstimates
    \/ AssignIssuesToPipelines
    \/ DefineEpics
    \/ CloseTargetIssues
    \/ PatchSourceIssues
    \/ CloseSourceIssue
    \/ CloseSourceIssuesReturn
    \/ Except
    \/ Finally

Spec == Init /\ [][Next]_vars

\* lines 703-704: the script is started a second time against the same
\* source and target repositories, after a run that ended in any way
Rerun ==
    /\ m_pc = "exit" /\ ~rerun
    /\ rerun' = TRUE
    /\ m_pc' = "read_issues"
    /\ issues' = <<>>
    /\ issue_map' = <<>>
    /\ w_pc' = "idle"
    /\ w_i' = 0
    /\ w_issue_map' = <<>>
    /\ w_milestones' = {}
    /\ error' = "none"
    /\ printed' = <<>>
    /\ sent' = <<>>
    /\ attempted' = {}
    /\ closed_ms' = {}
    /\ UNCHANGED <<configVars, sourceVars, targetVars, created, setup_clean>>
    /\ served' = Nothing
    /\ c_i' = 1
    /\ UNCHANGED <<pagingVars, rewriteVars, epicVars, partVars>>

NextRerun ==
    \/ Next
    \/ Rerun

SpecRerun == Init /\ [][NextRerun]_vars

-----------------------------------------------------------------------------
(* Properties of the migration run, checked under Spec *)

\* C1: whenever main ends after an exception with k >= 1 target issues
\* created, the map printed by the finally block holds the source -> target
\* entry of each of the k created issues.
C1_MapPrintedOnAbort ==
    (m_pc = "exit" /\ error # "none" /\ created # {})
    => \A p \in created : p[1] \in DOMAIN printed /\ printed[p[1]] = p[2]

\* the entries of a map are source -> target pairs of answered-201 creates of
\* included source issues
SoundMap(map) ==
    \A s \in DOMAIN map :
      /\ <<s, map[s]>> \in created
      /\ \E i \in 1..Len(source_issues) :
           source_issues[i].number = s
             /\ should_we_include_this_issue(source_issues[i])

\* no entry of map is missing from or different in map2
Extends(map2, map) ==
    \A s \in DOMAIN map : s \in DOMAIN map2 /\ map2[s] = map[s]

\* C2: mapping monotonicity. At every point of a run each entry s -> t of the
\* issue map (the one write_issues builds and the one main holds) is the
\* number s of an included source issue whose create request was answered 201
\* and the number t that answer carried, and no step of the run removes or
\* changes an entry of the map once write_issues has put it there (the return
\* of write_issues hands every entry over to main's map).
C2_MappingMonotonic ==
    /\ [](SoundMap(w_issue_map) /\ SoundMap(issue_map))
    /\ [][/\ (w_pc # "idle" /\ w_pc' # "idle") => Extends(w_issue_map', w_issue_map)
          /\ Extends(issue_map', issue_map)
          /\ (w_pc # "idle" /\ w_pc' = "idle") => Extends(issue_map', w_issue_map)]_vars

C2_Witness ==
    /\ m_pc = "exit" /\ error = "none"
    /\ Len(issues) = 2 /\ Cardinality(DOMAIN issue_map) = 1
    /\ \E s \in DOMAIN issue_map : issue_map[s] # s

\* the source numbers whose create request this run issued and the target
\* did not answer 201
FailedCreates == {n \in attempted : \A p \in created : p[1] # n}

\* C15: per-issue failure tolerance. When the create request of an included
\* issue fails, the run goes on without a map entry for it: no later
\* statement of the run is aborted by the missing entry.
C15_FailureTolerated ==
    FailedCreates # {} =>
      error \notin {"add_estimates: KeyError", "close_target_issues: KeyError"}

\* r is a request that changes the source repository or the source board
ToSource(r) == r.to \in {"source", "source_zh"}

\* C16: source protection. With DEBUG = True no statement of the run issues a
\* POST, PATCH or PUT request to the source repository or the source ZenHub
\* board.
C16_SourceProtected ==
    DEBUG = TRUE => \A k \in 1..Len(sent) : ~ToSource(sent[k])

\* a run with DEBUG = True that created an issue and ran to its last
\* statement, which issued requests
C16_Witness ==
    /\ DEBUG = TRUE /\ script = "copy_GHE_issues"
    /\ m_pc = "finally" /\ error = "none"
    /\ created # {} /\ Len(sent) > 0

\* r is the close request of a target milestone
MilestoneClose(r) ==
    r.method = "PATCH" /\ r.to = "target" /\ r.what = "milestone"

TargetIssueOp(r) == r.to = "target" /\ r.what = "issue"

SetupCreate(r) ==
    r.method = "POST" /\ r.to = "target" /\ r.what \in {"label", "milestone"}

\* C19: priming the target is idempotent. A label (milestone) is posted to
\* the target only when the target holds none of that name (title), and
\* after a run whose setup_target_repo had every create request succeed the
\* second run issues no create request for a label or milestone.
C19_SetupIdempotent ==
    /\ []((rerun /\ setup_clean) => \A k \in 1..Len(sent) : ~SetupCreate(sent[k]))
    /\ [][\A k \in 1..Len(sent') :
            SetupCreate(sent'[k]) =>
              IF sent'[k].what = "label"
                THEN sent'[k].id \notin target_labels
                ELSE sent'[k].id \notin DOMAIN target_milestones]_vars

\* the second run has primed a target that the first run filled
C19_Witness ==
    /\ rerun /\ setup_clean /\ m_pc = "write_issues"
    /\ target_labels # {} /\ DOMAIN target_milestones # {}

\* C22: comments are copied. When the comments of a created issue have been
\* read, every comment of the source issue, however many there are, has been
\* posted to its target issue once, in the original order; no comment is
\* posted to anything but an issue that was created.
C22_AllCommentsCopied ==
    /\ (served.what = "comments" /\ served.get_ok) =>
         /\ Len(sent) = served.total
         /\ \A k \in 1..Len(sent) :
              sent[k].what = "comment" /\ sent[k].copy_of = k
    /\ \A k \in 1..Len(sent) :
         (sent[k].to = "target" /\ sent[k].what = "comment") =>
           /\ sent[k].id \in DOMAIN target_issues
           /\ <<target_issues[sent[k].id].source, sent[k].id>> \in created

\* r is a request of the latest statement that the target did not carry out:
\* the create request of a label or milestone the target does not hold, or
\* the close request of a milestone that is not closed
Refused(r) ==
    \/ r.method = "POST" /\ r.to = "target" /\ r.what = "label"
         /\ r.id \notin target_labels
    \/ r.method = "POST" /\ r.to = "target" /\ r.what = "milestone"
         /\ r.id \notin DOMAIN target_milestones
    \/ MilestoneClose(r) /\ target_milestones[r.id] # "closed"

\* C24: a failed request is fatal. When a create request of a label or
\* milestone or a close request of a milestone has failed, the run has
\* aborted with an error: it does not go on with that entity skipped.
C24_FailureIsFatal ==
    (\E k \in 1..Len(sent) : Refused(sent[k])) => error # "none"

\* the statements of steps 6 and 7: transfer of the secondary metadata and
\* closing of the mirrored state in the target
Steps6And7 ==
    {"add_estimates", "assign_issues_to_pipelines", "define_epics",
     "close_target_issues"}

\* the statements of step 8: patching and closing of the source
Step8 == {"patch_source_issues", "close_source_issues"}

\* C25, as stated: the flag gates steps 6 to 8. While DEBUG is True the run
\* executes no statement of steps 6, 7 and 8.
C25_DebugGatesSteps6To8 ==
    DEBUG = TRUE => m_pc \notin Steps6And7 \cup Step8

\* C25, amended: the flag gates step 8 only. While DEBUG is True the run
\* executes no statement of step 8; the statements of steps 6 and 7 follow
\* patch_target_issues whatever the flag is, and the flag decides only what
\* follows close_target_issues.
C25_DebugGatesStep8Only ==
    /\ [](DEBUG = TRUE => m_pc \notin Step8)
    /\ [][/\ (m_pc = "patch_target_issues" /\ error' = "none")
               => (m_pc' \in Steps6And7)
          /\ (m_pc = "close_target_issues" /\ error' = "none")
               => (m_pc' = IF DEBUG THEN "finally"
                                  ELSE "patch_source_issues")]_vars

\* a run with DEBUG = True that has closed a target milestone and gone from
\* there to its end
C25_Witness ==
    /\ DEBUG = TRUE /\ m_pc = "finally" /\ error = "none"
    /\ \E k \in 1..Len(sent) :
         MilestoneClose(sent[k]) /\ target_milestones[sent[k].id] = "closed"

\* the issues main read (as open) that are closed in the source now
ClosedByRun ==
    {issues[i].number : i \in 1..Len(issues)}
      \cap {source_issues[i].number :
               i \in {j \in 1..Len(source_issues) :
                        source_issues[j].state = "closed"}}

\* C26: closing of the source. A source issue is closed by the run only if it
\* is a key of the map, close requests go to keys of the map only, and every
\* source issue that close_source_issues has closed carries the comment that
\* links to its target issue.
C26_ClosedSourceIsMirroredAndLinked ==
    /\ ClosedByRun \subseteq DOMAIN issue_map
    /\ served.what = "close_source" =>
         /\ \A k \in 1..Len(sent) : sent[k].id \in DOMAIN issue_map
         /\ served.closed => served.commented

\* the order of the phases: Select, Prime target, Build Pipeline Map, Create,
\* Rewrite target references, Transfer secondary metadata, Close mirrored
\* state, Patch and close source; then the end of main
PhaseOrder ==
    <<"read_issues", "setup_target_repo", "complete_pipeline_map",
      "write_issues", "patch_target_issues", "add_estimates",
      "assign_issues_to_pipelines", "define_epics", "close_target_issues",
      "patch_source_issues", "close_source_issues", "except", "finally",
      "exit">>

PhaseRank(p) == CHOOSE k \in 1..Len(PhaseOrder) : PhaseOrder[k] = p

\* the statements that issue a request like r
PhasesIssuing(r) ==
    CASE r.to = "target" /\ r.method = "POST" /\ r.what \in {"label", "milestone"}
           -> {"setup_target_repo"}
      [] r.to = "target" /\ r.method = "POST" /\ r.what \in {"issue", "comment"}
           -> {"write_issues"}
      [] r.to = "target" /\ r.method = "PATCH" /\ r.what = "issue"
           -> {"patch_target_issues", "close_target_issues"}
      [] r.to = "target" /\ r.method = "PATCH" /\ r.what = "milestone"
           -> {"close_target_issues"}
      [] r.to = "target_zh" /\ r.what = "estimate" -> {"add_estimates"}
      [] r.to = "target_zh" /\ r.what = "moves"
           -> {"assign_issues_to_pipelines"}
      [] r.to = "target_zh" /\ r.what = "convert_to_epic" -> {"define_epics"}
      [] r.to = "source" /\ r.method = "PATCH"
           -> {"patch_source_issues", "close_source_issues"}
      [] r.to = "source" /\ r.method = "POST" -> {"close_source_issues"}
      [] OTHER -> {}

\* C28: phase order. main never goes back to an earlier phase; every request
\* is issued by the statement that is running, so none of a later phase is
\* issued before the earlier phases have ended; the create requests are
\* issued in source issue order, and a target issue is patched only when every
\* issue read has had its create request.
C28_PhaseOrder ==
    /\ [][/\ PhaseRank(m_pc') >= PhaseRank(m_pc)
           /\ \A k \in 1..Len(sent') : m_pc \in PhasesIssuing(sent'[k])
           /\ attempted' # attempted =>
                attempted' = attempted
                               \cup {issues[Cardinality(attempted) + 1].number}]_vars
    /\ [](\A k \in 1..Len(sent) :
            (sent[k].to = "target" /\ sent[k].method = "PATCH") =>
              attempted = {issues[i].number : i \in 1..Len(issues)})

\* a run over two issues that went through every statement and has just
\* closed the second issue in the source
C28_Witness ==
    /\ script = "copy_GHE_issues" /\ DEBUG = FALSE /\ error = "none"
    /\ Len(issues) = 2 /\ attempted = {1, 2} /\ c_i = 3
    /\ served.what = "close_source" /\ served.closed

\* C20: a rerun is safe. No source issue is created in the target twice: of
\* the create requests answered 201 over both runs, no two are for the same
\* source issue.
C20_NoDuplicateOnRerun ==
    \A p, q \in created : p[1] = q[1] => p = q

\* the milestone of the source issue of number n
SourceMilestoneOf(n) ==
    LET i == CHOOSE j \in 1..Len(source_issues) : source_issues[j].number = n
    IN  source_issues[i].milestone

\* C30: milestone resolution. An issue created in the target carries the
\* target milestone of the title of its source issue's milestone whenever the
\* target holds a milestone of that title, open or closed, and no milestone
\* otherwise.
C30_MilestoneResolved ==
    [][\A n \in DOMAIN target_issues' \ DOMAIN target_issues :
         target_issues'[n].milestone
           = IF SourceMilestoneOf(target_issues'[n].source)
                  \in DOMAIN target_milestones
               THEN SourceMilestoneOf(target_issues'[n].source)
               ELSE NoMilestone]_vars

-----------------------------------------------------------------------------
(* Reference rewriting, src/copy_GHE_issues.py lines 34 and 337-409         *)
(* (src/copy_github_issues.py lines 262-334 are the same code).             *)
(*                                                                          *)
(* A text is a sequence of tokens: the characters " ", "#", "x" and the     *)
(* digits, and one token for each '<url>/issues/' prefix. None of the single *)
(* characters occurs inside a prefix and '/issues/' occurs only at the end of *)
(* a prefix, so ISSUE_REGEX and str.replace act on the token sequence as they *)
(* act on the characters.                                                   *)

\* source_gh_issues_url + '/' (line 340), target_gh_issues_url + '/' (line
\* 339) and the issues URL of an unrelated repository
SourceIssuesUrl == "https://github.ibm.com/source_org/source_repo/issues/"
TargetIssuesUrl == "https://github.ibm.com/target_org/target_repo/issues/"
OtherIssuesUrl == "https://github.ibm.com/other_org/other_repo/issues/"

DigitChars == <<"0", "1", "2", "3", "4", "5", "6", "7", "8", "9">>

IsDigit(c) == \E k \in 1..Len(DigitChars) : DigitChars[k] = c        \* \d
IsSpace(c) == c = " "                                                \* \s
IsIssuesUrl(c) == c \in {SourceIssuesUrl, TargetIssuesUrl, OtherIssuesUrl}

DigitValue(c) == (CHOOSE k \in 1..Len(DigitChars) : DigitChars[k] = c) - 1

\* int(match[1])
RECURSIVE ToInt(_)
ToInt(ds) ==
    IF Len(ds) = 0 THEN 0
    ELSE ToInt(SubSeq(ds, 1, Len(ds) - 1)) * Len(DigitChars) + DigitValue(ds[Len(ds)])

\* '%s' % n for an issue number n
RECURSIVE FromInt(_)
FromInt(n) ==
    IF n < Len(DigitChars) THEN <<DigitChars[n + 1]>>
    ELSE FromInt(n \div Len(DigitChars)) \o <<DigitChars[(n % Len(DigitChars)) + 1]>>

\* the last index of the run of digits that starts at i (i - 1 if none)
RECURSIVE DigitRunEnd(_, _)
DigitRunEnd(text, i) ==
    IF i <= Len(text) /\ IsDigit(text[i]) THEN DigitRunEnd(text, i + 1) ELSE i - 1

\* the last index of the run of non-space characters that starts at i
RECURSIVE RunEnd(_, _)
RunEnd(text, i) ==
    IF i <= Len(text) /\ ~IsSpace(text[i]) THEN RunEnd(text, i + 1) ELSE i - 1

NoMatch == [found |-> FALSE, marker |-> <<>>, digits |-> <<>>, end |-> 0]

\* ISSUE_REGEX = r'(\s#|\S+/issues/)(\d+)' tried at position i: '\s#' and the
\* digits after it, or else the non-space run from i up to its last
\* '/issues/' that a digit follows (\S+ is greedy) and the digits after that
MatchAt(text, i) ==
    IF IsSpace(text[i])
      THEN IF i + 2 <= Len(text) /\ text[i + 1] = "#" /\ IsDigit(text[i + 2])
             THEN [found |-> TRUE, marker |-> SubSeq(text, i, i + 1),
                   digits |-> SubSeq(text, i + 2, DigitRunEnd(text, i + 2)),
                   end |-> DigitRunEnd(text, i + 2)]
             ELSE NoMatch
      ELSE LET J == {j \in i..(RunEnd(text, i) - 1) :
                       IsIssuesUrl(text[j]) /\ IsDigit(text[j + 1])}
           IN  IF J = {} THEN NoMatch
               ELSE LET j == CHOOSE x \in J : \A y \in J : y <= x
                    IN  [found |-> TRUE, marker |-> SubSeq(text, i, j),
                         digits |-> SubSeq(text, j + 1, DigitRunEnd(text, j + 1)),
                         end |-> DigitRunEnd(text, j + 1)]

\* re.findall(ISSUE_REGEX, text): the matches from position i on, left to right
RECURSIVE FindAllFrom(_, _)
FindAllFrom(text, i) ==
    IF i > Len(text) THEN <<>>
    ELSE LET m == MatchAt(text, i)
         IN  IF m.found
               THEN <<[marker |-> m.marker, digits |-> m.digits]>>
                      \o FindAllFrom(text, m.end + 1)
               ELSE FindAllFrom(text, i + 1)

FindAll(text) == FindAllFrom(text, 1)

\* text.replace(old, new): every occurrence, left to right, not overlapping
RECURSIVE ReplaceFrom(_, _, _, _)
ReplaceFrom(text, i, old, new) ==
    IF i > Len(text) THEN <<>>
    ELSE IF i + Len(old) - 1 <= Len(text) /\ SubSeq(text, i, i + Len(old) - 1) = old
      THEN new \o ReplaceFrom(text, i + Len(old), old, new)
      ELSE <<text[i]>> \o ReplaceFrom(text, i + 1, old, new)

Replace(text, old, new) == ReplaceFrom(text, 1, old, new)

\* faulty variant: every reference is in scope
InScopeAny(marker) == TRUE

\* line 356: match[0].strip() == '#' or match[0].find(source_repo) >= 0
InScope(marker) ==
    \/ marker = <<" ", "#">>
    \/ \E k \in 1..Len(marker) : marker[k] = SourceIssuesUrl

\* lines 360-367: the reference written for a match
NewUrlRef(match, map) ==
    IF ToInt(match.digits) \in DOMAIN map
      THEN <<" ", TargetIssuesUrl>> \o FromInt(map[ToInt(match.digits)])
      ELSE <<" ", SourceIssuesUrl>> \o match.digits

\* lines 353-368 (guard = TRUE, the issue body) and lines 388-400 (guard =
\* FALSE, a comment): the loop over the matches, from match k on
RECURSIVE RewriteLoop(_, _, _, _, _, _)
RewriteLoop(new_body, matches, k, key, map, guard) ==
    IF k > Len(matches) THEN new_body
    ELSE LET match == matches[k]
             next == IF InScope(match.marker)
                          /\ ~(guard /\ ToInt(match.digits) = key)
                       THEN Replace(new_body, match.marker \o match.digits,
                                    NewUrlRef(match, map))
                       ELSE new_body
         IN  RewriteLoop(next, matches, k + 1, key, map, guard)

\* lines 350-368
RewriteBody(body, key, map) == RewriteLoop(body, FindAll(body), 1, key, map, TRUE)

\* faulty variant: a comment keeps the references to its own issue
RewriteCommentGuarded(body, map) ==
    RewriteLoop(body, FindAll(body), 1, r_key, map, TRUE)

\* lines 385-400
RewriteComment(body, map) == RewriteLoop(body, FindAll(body), 1, 0, map, FALSE)

\* lines 431-439 (a source body) and lines 459-467 (a source comment): the
\* loop of patch_source_issues over the matches, from match k on
RECURSIVE RewriteSourceLoop(_, _, _, _)
RewriteSourceLoop(new_body, matches, k, map) ==
    IF k > Len(matches) THEN new_body
    ELSE LET match == matches[k]
             n == ToInt(match.digits)
             next == IF InScope(match.marker) /\ n \in DOMAIN map
                       THEN Replace(new_body, match.marker \o match.digits,
                                    <<" ", TargetIssuesUrl>> \o FromInt(map[n]))
                       ELSE new_body
         IN  RewriteSourceLoop(next, matches, k + 1, map)

\* lines 428-439, 456-467
RewriteSource(body, map) == RewriteSourceLoop(body, FindAll(body), 1, map)

\* lines 434-442, 462-470: the PATCH is sent for a match that is in scope and
\* mapped
SourcePatched(body, map) ==
    \E k \in 1..Len(FindAll(body)) :
      /\ InScope(FindAll(body)[k].marker)
      /\ ToInt(FindAll(body)[k].digits) \in DOMAIN map

\* the inputs of the rewriting: texts of up to MaxWords words
Words ==
    { <<" ", "#", "1">>, <<" ", "#", "1", "2">>, <<" ", "#", "2">>,
      <<SourceIssuesUrl, "1">>, <<OtherIssuesUrl, "1">>,
      <<"x">>, <<" ">>, <<"2">> }

RECURSIVE Texts(_)
Texts(n) ==
    IF n = 0 THEN {<<>>}
    ELSE LET T == Texts(n - 1)
         IN  T \cup {t \o w : t \in T, w \in Words}

SourceNumbers == {1, 2, 12}
TargetNumbers == {9, 10}

\* the issue maps: one-to-one, of one or two migrated issues
IssueMaps ==
    {f \in UNION {[D -> TargetNumbers] : D \in SUBSET SourceNumbers \ {{}}} :
       \A a, b \in DOMAIN f : f[a] = f[b] => a = b}

InitRewrite ==
    /\ r_text \in Texts(MaxWords)
    /\ r_map \in IssueMaps
    /\ r_key \in DOMAIN r_map
    /\ r_pc = "fetched"
    /\ r_out = <<>>
    /\ r_patch = FALSE
    /\ r_again = <<>>
    /\ IdlePaging
    /\ IdleMain
    /\ IdleEpics
    /\ IdleParts

\* lines 347-375: the body of target issue issue_map[key] is rewritten and,
\* if it holds a match, patched
PatchBody ==
    /\ r_pc = "fetched"
    /\ r_out' = RewriteBody(r_text, r_key, r_map)
    /\ r_patch' = (Len(FindAll(r_text)) > 0)
    /\ r_pc' = "body"
    /\ UNCHANGED <<r_text, r_key, r_map, r_again>>
    /\ UNCHANGED <<pagingVars, mainVars, epicVars, partVars>>

\* lines 384-407: a comment of target issue issue_map[key] is rewritten and,
\* if it holds a match, patched
PatchComment ==
    /\ r_pc = "fetched"
    /\ r_out' = RewriteComment(r_text, r_map)
    /\ r_patch' = (Len(FindAll(r_text)) > 0)
    /\ r_pc' = "comment"
    /\ UNCHANGED <<r_text, r_key, r_map, r_again>>
    /\ UNCHANGED <<pagingVars, mainVars, epicVars, partVars>>

\* patch_target_issues runs once more over the target it has patched: lines
\* 347-375 find the patched body and rewrite it
PatchBodyAgain ==
    /\ r_pc = "body"
    /\ r_again' = RewriteBody(r_out, r_key, r_map)
    /\ r_pc' = "body_again"
    /\ UNCHANGED <<r_text, r_key, r_map, r_out, r_patch>>
    /\ UNCHANGED <<pagingVars, mainVars, epicVars, partVars>>

\* lines 384-407 find the patched comment and rewrite it
PatchCommentAgain ==
    /\ r_pc = "comment"
    /\ r_again' = RewriteComment(r_out, r_map)
    /\ r_pc' = "comment_again"
    /\ UNCHANGED <<r_text, r_key, r_map, r_out, r_patch>>
    /\ UNCHANGED <<pagingVars, mainVars, epicVars, partVars>>

\* lines 426-446: the body of source issue key is rewritten and patched
PatchSourceBody ==
    /\ r_pc = "fetched"
    /\ r_out' = RewriteSource(r_text, r_map)
    /\ r_patch' = SourcePatched(r_text, r_map)
    /\ r_pc' = "source_body"
    /\ UNCHANGED <<r_text, r_key, r_map, r_again>>
    /\ UNCHANGED <<pagingVars, mainVars, epicVars, partVars>>

\* lines 455-474: a comment of source issue key is rewritten and patched
PatchSourceComment ==
    /\ r_pc = "fetched"
    /\ r_out' = RewriteSource(r_text, r_map)
    /\ r_patch' = SourcePatched(r_text, r_map)
    /\ r_pc' = "source_comment"
    /\ UNCHANGED <<r_text, r_key, r_map, r_again>>
    /\ UNCHANGED <<pagingVars, mainVars, epicVars, partVars>>

NextRewrite ==
    \/ PatchBody
    \/ PatchComment
    \/ PatchBodyAgain
    \/ PatchCommentAgain
    \/ PatchSourceBody
    \/ PatchSourceComment

SpecRewrite == InitRewrite /\ [][NextRewrite]_vars

-----------------------------------------------------------------------------
(* Properties of the reference rewriting, checked under SpecRewrite *)

\* ref stands at position i of text as a whole reference: no digit follows it
OccursAt(text, i, ref) ==
    /\ i + Len(ref) - 1 <= Len(text)
    /\ SubSeq(text, i, i + Len(ref) - 1) = ref
    /\ i + Len(ref) <= Len(text) => ~IsDigit(text[i + Len(ref)])

CountRef(text, ref) == Cardinality({i \in 1..Len(text) : OccursAt(text, i, ref)})

\* the matches of a text the rewriting is to replace: in scope and, in an
\* issue body, not a reference to the issue itself
ToRewrite(matches, key, guard) ==
    {k \in 1..Len(matches) :
       InScope(matches[k].marker) /\ ~(guard /\ ToInt(matches[k].digits) = key)}

\* C10: reference rewriting in the target. Every in-scope reference to a
\* source issue n in a body or comment is replaced by the URL of target issue
\* map[n] when n is a key of the map and by the URL of source issue n when it
\* is not, and none is dropped: the rewritten text holds the URL of each
\* referenced issue at least as often as the fetched text refers to it.
\* (References of a body to its own issue are left out of the count.)
C10_ReferencesRewritten ==
    r_pc \in {"body", "comment"} =>
      LET matches == FindAll(r_text)
          R == ToRewrite(matches, r_key, r_pc = "body")
      IN  \A k \in R :
            CountRef(r_out, NewUrlRef(matches[k], r_map))
              >= Cardinality({j \in R : NewUrlRef(matches[j], r_map)
                                          = NewUrlRef(matches[k], r_map)})

\* the in-scope matches of a text
InScopeMatches(matches) == {k \in 1..Len(matches) : InScope(matches[k].marker)}

\* C11: reference rewrite idempotence. Rewriting a text that holds no in-scope
\* reference returns it unchanged, and rewriting the rewritten text once more
\* with the same map returns the rewritten text.
C11_RewriteIdempotent ==
    /\ (r_pc \in {"body", "comment"} /\ InScopeMatches(FindAll(r_text)) = {})
         => r_out = r_text
    /\ r_pc \in {"body_again", "comment_again"} => r_again = r_out

\* the text with each match that is to be rewritten replaced, where it
\* stands, by the reference written for its own number, from position i on
RECURSIVE ExactFrom(_, _, _, _, _)
ExactFrom(text, i, key, map, guard) ==
    IF i > Len(text) THEN <<>>
    ELSE LET m == MatchAt(text, i)
         IN  IF m.found
               THEN (IF InScope(m.marker) /\ ~(guard /\ ToInt(m.digits) = key)
                       THEN NewUrlRef(m, map)
                       ELSE SubSeq(text, i, m.end))
                      \o ExactFrom(text, m.end + 1, key, map, guard)
               ELSE <<text[i]>> \o ExactFrom(text, i + 1, key, map, guard)

\* C12: exact substitution. The rewritten text is the fetched text with each
\* in-scope reference that is not a self reference replaced by the URL of its
\* own issue number and every other character unchanged.
C12_ExactSubstitution ==
    r_pc \in {"body", "comment"} =>
      r_out = ExactFrom(r_text, 1, r_key, r_map, r_pc = "body")

\* C13: self-reference guard. When the body of the target issue made from
\* source issue r_key is rewritten, each in-scope reference to issue r_key
\* stands in the rewritten body as it stood in the fetched body.
C13_SelfReferenceKept ==
    r_pc = "body" =>
      LET matches == FindAll(r_text)
          Self == {k \in InScopeMatches(matches) :
                     ToInt(matches[k].digits) = r_key}
      IN  \A k \in Self :
            CountRef(r_out, matches[k].marker \o matches[k].digits)
              >= Cardinality({j \in Self : matches[j] = matches[k]})

\* a URL reference to an issue of another repository: its marker is not the
\* bare ' #' and does not hold the source repository name
ForeignUrlRef(match) ==
    /\ match.marker # <<" ", "#">>
    /\ \A k \in 1..Len(match.marker) : match.marker[k] # SourceIssuesUrl

\* C14: scope filter. A URL reference whose marker does not hold the name of
\* the source repository stands in the rewritten text as it stood in the
\* fetched text, whatever other references the text holds.
C14_OutOfScopeKept ==
    r_pc \in {"body", "comment"} =>
      LET matches == FindAll(r_text)
          Out == {k \in 1..Len(matches) : ForeignUrlRef(matches[k])}
      IN  \A k \in Out :
            CountRef(r_out, matches[k].marker \o matches[k].digits)
              >= Cardinality({j \in Out : matches[j] = matches[k]})

\* a text with an unrelated URL next to references that are rewritten
C14_Witness ==
    /\ r_pc \in {"body", "comment"}
    /\ r_out # r_text
    /\ \E k \in 1..Len(FindAll(r_text)) : ForeignUrlRef(FindAll(r_text)[k])

\* the text is one in-scope reference to the issue that owns it, with
\* nothing else that matches
OnlySelfReference(text, key) ==
    LET matches == FindAll(text)
    IN  /\ Len(matches) = 1
        /\ InScope(matches[1].marker)
        /\ ToInt(matches[1].digits) = key

\* C36: no self-reference guard in comments. A comment is rewritten as a body
\* is whose own number occurs nowhere (0 is no issue number): a reference of
\* the comment to the source number of its own issue is replaced by the URL
\* of the target issue, while the same text as the issue body is left as it
\* is.
C36_CommentSelfReferenceRewritten ==
    r_pc = "comment" =>
      /\ r_out = RewriteBody(r_text, 0, r_map)
      /\ OnlySelfReference(r_text, r_key) =>
           /\ CountRef(r_out, <<" ", TargetIssuesUrl>> \o FromInt(r_map[r_key])) = 1
           /\ CountRef(r_out, FindAll(r_text)[1].marker
                                \o FindAll(r_text)[1].digits) = 0
           /\ RewriteBody(r_text, r_key, r_map) = r_text

\* a comment that refers to its own issue, number 12, next to other words
C36_Witness ==
    /\ r_pc = "comment" /\ r_key = 12 /\ Len(r_text) > 4
    /\ OnlySelfReference(r_text, r_key)
    /\ r_out # r_text

\* C32: step 8 rewrites by the rule of step 5. The text patch_source_issues
\* produces for the body of source issue key is the text the body rule of
\* patch_target_issues produces for it (mapped to the target URL, unmapped to
\* the source URL, a reference to the issue itself untouched), and the text it
\* produces for a comment is the text the comment rule produces.
C32_SourceRewriteAsStep5 ==
    /\ r_pc = "source_body" => r_out = RewriteBody(r_text, r_key, r_map)
    /\ r_pc = "source_comment" => r_out = RewriteComment(r_text, r_map)

\* C29: only edited text is persisted. A PATCH is sent for a body or a comment
\* only if the rewritten text differs from the fetched text: a text whose
\* matches are all out of scope or self-references is not written.
C29_PatchOnlyEdited ==
    (r_pc \in {"body", "comment"} /\ r_patch) => r_out # r_text

-----------------------------------------------------------------------------
(* define_epics, src/copy_GHE_issues.py lines 537-569, over the issue maps  *)
(* and the boards of the issues 1..MaxIssues + 2 with up to MaxEpics epics. *)

\* the issue numbers of the source repository
EpicNumbers == 1..(MaxIssues + 2)

\* faulty variant: the children are passed with their source numbers
TargetEpicIssuesSource(children, map) ==
    SelectSeq(children, LAMBDA c : c \in DOMAIN map)

\* lines 549-553: target_epic_issues, the target numbers of the children that
\* are keys of the map
TargetEpicIssues(children, map) ==
    LET kept == SelectSeq(children, LAMBDA c : c \in DOMAIN map)
    IN  [k \in 1..Len(kept) |-> map[kept[k]]]

\* lines 554-555: target_epic_issues_not_included
NotIncluded(children, map) ==
    SelectSeq(children, LAMBDA c : c \notin DOMAIN map)

\* lines 557-559: the convert_to_epic request for target issue epic
EpicReq(epic, epic_issues) ==
    [method |-> "POST", to |-> "target_zh", what |-> "convert_to_epic",
     id |-> epic, issues |-> epic_issues]

\* the maps write_issues returns: the issues are created in ascending source
\* order and the target numbers its issues ascending
EpicMaps ==
    {f \in UNION {[D -> EpicNumbers] : D \in SUBSET EpicNumbers} :
       \A a, b \in DOMAIN f : a < b => f[a] < f[b]}

\* the source boards: up to MaxEpics epics, each listing other issues
EpicBoards ==
    UNION {[E -> {Ascending(C) : C \in SUBSET EpicNumbers}] :
             E \in {X \in SUBSET EpicNumbers : Cardinality(X) <= MaxEpics}}

InitEpics ==
    /\ e_map \in EpicMaps
    /\ e_board \in EpicBoards
    /\ \A e \in DOMAIN e_board :
         \A k \in 1..Len(e_board[e]) : e_board[e][k] # e
    /\ e_todo = <<>>
    /\ e_pc = "list"
    /\ e_sent = <<>>
    /\ e_reported = <<>>
    /\ IdlePaging
    /\ IdleMain
    /\ IdleRewrite
    /\ IdleParts

\* line 539: the epics of the source board are read; subscripting None (the
\* request failed) or an exception of make_request ends define_epics
ListEpics ==
    /\ e_pc = "list"
    /\ \/ e_pc' = "raised" /\ UNCHANGED e_todo
       \/ e_pc' = "loop" /\ e_todo' = Ascending(DOMAIN e_board)
    /\ UNCHANGED <<e_map, e_board, e_sent, e_reported>>
    /\ UNCHANGED <<pagingVars, mainVars, rewriteVars, partVars>>

\* lines 540-543: an epic whose issue is not a key of the map is passed over
EpicPassedOver ==
    /\ e_pc = "loop" /\ e_todo # <<>>
    /\ Head(e_todo) \notin DOMAIN e_map
    /\ e_todo' = Tail(e_todo)
    /\ UNCHANGED <<e_map, e_board, e_pc, e_sent, e_reported>>
    /\ UNCHANGED <<pagingVars, mainVars, rewriteVars, partVars>>

\* lines 543-568: the issues of an epic that is a key of the map are read,
\* the convert_to_epic request is sent and its outcome printed: whether it
\* succeeded (ok) and the children that were not copied, which a successful
\* request prints only when there are any
EpicConverted ==
    /\ e_pc = "loop" /\ e_todo # <<>>
    /\ Head(e_todo) \in DOMAIN e_map
    /\ LET source_epic == Head(e_todo)
           children == e_board[source_epic]
           not_included == NotIncluded(children, e_map)
       IN  \E ok \in BOOLEAN :
             /\ e_sent' = Append(e_sent,
                                 EpicReq(e_map[source_epic],
                                         TargetEpicIssues(children, e_map)))
             /\ e_reported' =
                  IF ok /\ Len(not_included) = 0 THEN e_reported
                  ELSE Append(e_reported,
                              [epic |-> e_map[source_epic], created |-> ok,
                               not_copied |-> not_included])
    /\ e_todo' = Tail(e_todo)
    /\ UNCHANGED <<e_map, e_board, e_pc>>
    /\ UNCHANGED <<pagingVars, mainVars, rewriteVars, partVars>>

\* lines 544-545, 557-559: make_request raises (400 after its retries), or
\* returns None for the epic's issues, which line 549 subscripts
EpicRaised ==
    /\ e_pc = "loop" /\ e_todo # <<>>
    /\ Head(e_todo) \in DOMAIN e_map
    /\ e_pc' = "raised"
    /\ UNCHANGED <<e_map, e_board, e_todo, e_sent, e_reported>>
    /\ UNCHANGED <<pagingVars, mainVars, rewriteVars, partVars>>

\* the for loop of line 540 ends
DefineEpicsReturn ==
    /\ e_pc = "loop" /\ e_todo = <<>>
    /\ e_pc' = "done"
    /\ UNCHANGED <<e_map, e_board, e_todo, e_sent, e_reported>>
    /\ UNCHANGED <<pagingVars, mainVars, rewriteVars, partVars>>

NextEpics ==
    \/ ListEpics
    \/ EpicPassedOver
    \/ EpicConverted
    \/ EpicRaised
    \/ DefineEpicsReturn

SpecEpics == InitEpics /\ [][NextEpics]_vars

-----------------------------------------------------------------------------
(* Properties of define_epics, checked under SpecEpics *)

SeqRange(seq) == {seq[k] : k \in 1..Len(seq)}

\* C21: epic transfer. For every source epic that is a key of the map exactly
\* one convert_to_epic request is sent, for its target issue, carrying exactly
\* the target numbers of the children that are keys of the map (each once);
\* the children that are not keys of the map are printed for that epic. No
\* request is sent for any other epic.
C21_EpicTransfer ==
    e_pc = "done" =>
      LET migrated == DOMAIN e_board \cap DOMAIN e_map
      IN  /\ Len(e_sent) = Cardinality(migrated)
          /\ \A e \in migrated :
               LET children == SeqRange(e_board[e])
                   absent == children \ DOMAIN e_map
               IN  /\ \E k \in 1..Len(e_sent) :
                        /\ e_sent[k].id = e_map[e]
                        /\ SeqRange(e_sent[k].issues)
                             = {e_map[c] : c \in children \cap DOMAIN e_map}
                        /\ Len(e_sent[k].issues)
                             = Cardinality(children \cap DOMAIN e_map)
                   /\ absent # {} =>
                        \E j \in 1..Len(e_reported) :
                          /\ e_reported[j].epic = e_map[e]
                          /\ SeqRange(e_reported[j].not_copied) = absent
                          /\ Len(e_reported[j].not_copied) = Cardinality(absent)

\* the epic of source issue 4 lists the issues 1, 2 and 3, of which 2 was not
\* copied; the target numbers differ from the source numbers
C21_Witness ==
    /\ e_pc = "done"
    /\ 4 \in DOMAIN e_board /\ e_board[4] = <<1, 2, 3>>
    /\ DOMAIN e_map = {1, 3, 4} /\ e_map[1] = 2
    /\ Len(e_sent) = 1 /\ e_sent[1].issues = <<e_map[1], e_map[3]>>
    /\ Len(e_reported) = 1 /\ e_reported[1].not_copied = <<2>>

-----------------------------------------------------------------------------
(* The for loop of patch_target_issues, src/copy_GHE_issues.py lines       *)
(* 341-409 (src/copy_github_issues.py lines 266-334 are the same code)     *)

\* a request of the loop: what it reads or writes, the target issue it
\* belongs to, and whether it was answered 200
PatchReq(method, what, issue, ok) ==
    [method |-> method, what |-> what, issue |-> issue, ok |-> ok]

\* line 341: issue_map.keys(), in the order write_issues inserted them
PatchKeys == Ascending(DOMAIN p_map)

\* lines 378-407: the comments of the issue held by the variable issue are
\* read and, when the read succeeds, n of them are patched
CommentRequests(issue, comments_ok, n) ==
    <<PatchReq("GET", "comments", issue, comments_ok)>>
      \o (IF comments_ok
            THEN [k \in 1..n |-> PatchReq("PATCH", "comment", issue, TRUE)]
            ELSE <<>>)

InitPatch ==
    /\ p_map \in EpicMaps
    /\ p_i = 1
    /\ p_issue = <<>>
    /\ p_reqs = <<>>
    /\ p_pc = "loop"
    /\ IdlePaging
    /\ IdleMain
    /\ IdleRewrite
    /\ IdleEpics
    /\ IdleZenhub
    /\ IdlePipeline
    /\ IdleAsoc

\* lines 342-409, the target issue is served: its body is patched if it holds
\* a match, then its comments are read and patched
PatchFetched ==
    /\ p_pc = "loop" /\ p_i <= Len(PatchKeys)
    /\ \E body_matches, comments_ok \in BOOLEAN, n \in 0..MaxComments :
         LET target == p_map[PatchKeys[p_i]]
         IN  /\ ~comments_ok => n = 0
             /\ p_issue' = <<target>>
             /\ p_reqs' = <<PatchReq("GET", "issue", target, TRUE)>>
                            \o (IF body_matches
                                  THEN <<PatchReq("PATCH", "issue", target, TRUE)>>
                                  ELSE <<>>)
                            \o CommentRequests(target, comments_ok, n)
    /\ p_i' = p_i + 1
    /\ UNCHANGED <<p_map, p_pc>>
    /\ UNCHANGED patchRest

\* lines 342-345, 378-409, the target issue is not served (status other than
\* 200) in a pass after the first served one: the error is printed, and line
\* 378 reads issue, which still holds the issue of an earlier pass
PatchNotFetched ==
    /\ p_pc = "loop" /\ p_i <= Len(PatchKeys)
    /\ p_issue # <<>>
    /\ \E comments_ok \in BOOLEAN, n \in 0..MaxComments :
         LET target == p_map[PatchKeys[p_i]]
         IN  /\ ~comments_ok => n = 0
             /\ p_reqs' = <<PatchReq("GET", "issue", target, FALSE)>>
                            \o CommentRequests(p_issue[1], comments_ok, n)
    /\ p_i' = p_i + 1
    /\ UNCHANGED <<p_map, p_issue, p_pc>>
    /\ UNCHANGED patchRest

\* lines 342-345, 378, the target issue is not served and no pass before was:
\* line 378 reads issue before any assignment, UnboundLocalError
PatchUnbound ==
    /\ p_pc = "loop" /\ p_i <= Len(PatchKeys)
    /\ p_issue = <<>>
    /\ p_reqs' = <<PatchReq("GET", "issue", p_map[PatchKeys[p_i]], FALSE)>>
    /\ p_pc' = "raised"
    /\ UNCHANGED <<p_map, p_i, p_issue>>
    /\ UNCHANGED patchRest

\* line 341: the keys are exhausted
PatchReturn ==
    /\ p_pc = "loop" /\ p_i > Len(PatchKeys)
    /\ p_pc' = "done"
    /\ UNCHANGED <<p_map, p_i, p_issue, p_reqs>>
    /\ UNCHANGED patchRest

NextPatch ==
    \/ PatchFetched
    \/ PatchNotFetched
    \/ PatchUnbound
    \/ PatchReturn

SpecPatch == InitPatch /\ [][NextPatch]_vars

-----------------------------------------------------------------------------
(* Properties of the loop of patch_target_issues, checked under SpecPatch *)

\* C35: step 5 failure isolation. When the read of a mapped target issue is
\* answered with a status other than 200, the pass of the loop issues no
\* request for the body or the comments of another issue, no exception is
\* raised, and the loop goes on with the next key; also when the failing
\* issue is the first.
C35_FetchFailureIsolated ==
    /\ p_pc # "raised"
    /\ (p_reqs # <<>> /\ ~p_reqs[1].ok) =>
         /\ \A k \in 1..Len(p_reqs) : p_reqs[k].issue = p_reqs[1].issue
         /\ p_pc \in {"loop", "done"}

-----------------------------------------------------------------------------
(* make_request, src/handle_zenhub_calls.py *)

\* line 5
RETRY_INTERVAL == 3

\* line 12: the default of the parameter maxretries
DefaultMaxRetries == 3

ZenhubStatuses == {200, 201, 204, 400, 403, 404}

\* lines 19, 27, 37, 41: the branch a status code takes
ZenhubBranch(status) ==
    IF status = 403 THEN "forbidden"
    ELSE IF status = 400 THEN "bad_request"
    ELSE IF status > 201 THEN "error"
    ELSE "ok"

\* line 22: sleep_time
SleepTime(reset, t) == (reset - t) + 1

\* faulty variant: the method is not passed on, the request is sent as a GET
ReissuedAsGet(request) == [request EXCEPT !.method = "GET"]

\* line 25: the recursive call is given the url, params and method of this one
Reissued(request) == request

\* lines 37-45: the value returned for an answer that is neither 403 nor 400
Answer(status, empty) ==
    IF ZenhubBranch(status) = "error" THEN "None"
    ELSE IF empty THEN "{}" ELSE "json"

\* one request as the history records it
ZenhubCall(status, reset, empty) ==
    [request |-> z_request, at |-> z_now, status |-> status, reset |-> reset,
     empty |-> empty, maxretries |-> z_maxretries]

InitZenhub ==
    /\ z_request \in [url : {"board"}, method : {"GET", "POST", "PUT"},
                       params : {"None", "data"}]
    /\ z_maxretries \in 0..DefaultMaxRetries
    /\ z_budget = z_maxretries
    /\ z_now = 0
    /\ z_calls = <<>>
    /\ z_pc = "request"
    /\ z_result = <<>>
    /\ IdlePaging
    /\ IdleMain
    /\ IdleRewrite
    /\ IdleEpics
    /\ IdlePatch
    /\ IdlePipeline
    /\ IdleAsoc

\* lines 13-18, 41-45: the request is answered 200 or 201, the content of the
\* answer is returned
ZenhubOk ==
    /\ z_pc = "request" /\ Len(z_calls) < MaxRequests
    /\ \E status \in ZenhubStatuses, empty \in BOOLEAN :
         /\ ZenhubBranch(status) = "ok"
         /\ z_calls' = Append(z_calls, ZenhubCall(status, 0, empty))
         /\ z_result' = <<"value", Answer(status, empty)>>
    /\ z_pc' = "returned"
    /\ UNCHANGED <<z_request, z_maxretries, z_budget, z_now>>
    /\ UNCHANGED zenhubRest

\* lines 13-18, 37-39: a status above 201 other than 400 and 403 is printed,
\* None is returned
ZenhubError ==
    /\ z_pc = "request" /\ Len(z_calls) < MaxRequests
    /\ \E status \in ZenhubStatuses :
         /\ ZenhubBranch(status) = "error"
         /\ z_calls' = Append(z_calls, ZenhubCall(status, 0, TRUE))
         /\ z_result' = <<"value", Answer(status, TRUE)>>
    /\ z_pc' = "returned"
    /\ UNCHANGED <<z_request, z_maxretries, z_budget, z_now>>
    /\ UNCHANGED zenhubRest

\* lines 13-25: 403, the call sleeps until the reset time plus one second and
\* calls itself with the same url, params, method and timeout; maxretries
\* is not passed, the new call has the default. time.sleep of a negative
\* length raises ValueError.
ZenhubForbidden ==
    /\ z_pc = "request" /\ Len(z_calls) < MaxRequests
    /\ \E status \in ZenhubStatuses, reset \in (z_now - 2)..(z_now + MaxWait) :
         /\ ZenhubBranch(status) = "forbidden"
         /\ z_calls' = Append(z_calls, ZenhubCall(status, reset, TRUE))
         /\ IF SleepTime(reset, z_now) < 0
              THEN /\ z_pc' = "raised"
                   /\ z_result' = <<"exception", "ValueError">>
                   /\ UNCHANGED <<z_request, z_maxretries, z_now>>
              ELSE /\ z_now' = z_now + SleepTime(reset, z_now)
                   /\ z_request' = Reissued(z_request)
                   /\ z_maxretries' = DefaultMaxRetries
                   /\ UNCHANGED <<z_pc, z_result>>
    /\ UNCHANGED z_budget
    /\ UNCHANGED zenhubRest

\* lines 13-18, 27-36: 400, the call sleeps RETRY_INTERVAL and calls itself
\* with maxretries - 1 while maxretries > 0, and raises otherwise
ZenhubBadRequest ==
    /\ z_pc = "request" /\ Len(z_calls) < MaxRequests
    /\ \E status \in ZenhubStatuses :
         /\ ZenhubBranch(status) = "bad_request"
         /\ z_calls' = Append(z_calls, ZenhubCall(status, 0, FALSE))
    /\ IF z_maxretries > 0
         THEN /\ z_now' = z_now + RETRY_INTERVAL
              /\ z_maxretries' = z_maxretries - 1
              /\ UNCHANGED <<z_pc, z_result>>
         ELSE /\ z_pc' = "raised"
              /\ z_result' = <<"exception", "400 error attempting to update Zenhub">>
              /\ UNCHANGED <<z_maxretries, z_now>>
    /\ UNCHANGED <<z_request, z_budget>>
    /\ UNCHANGED zenhubRest

NextZenhub ==
    \/ ZenhubOk
    \/ ZenhubError
    \/ ZenhubForbidden
    \/ ZenhubBadRequest

SpecZenhub == InitZenhub /\ [][NextZenhub]_vars

-----------------------------------------------------------------------------
(* Properties of make_request, checked under SpecZenhub *)

Retried400 == {i \in 1..(Len(z_calls) - 1) : z_calls[i].status = 400}

\* C34: bounded retry of the ZenHub client. Over one top-level call a request
\* answered 400 is retried at most maxretries times in total, also when
\* answers 403 come in between; the 400 after that raises.
C34_BoundedRetry ==
    /\ Cardinality(Retried400) <= z_budget
    /\ Cardinality({i \in 1..Len(z_calls) : z_calls[i].status = 400}) > z_budget
         => z_pc = "raised"

-----------------------------------------------------------------------------
(* complete_pipeline_map and assign_issues_to_pipelines,                   *)
(* src/copy_GHE_issues.py                                                  *)

\* lines 92-94
pipeline_map_exceptions ==
    [name \in {"In Review", "Deployed (Stage)", "Delivered (DEV)"} |->
       CASE name = "In Review" -> "Code Review"
         [] name = "Deployed (Stage)" -> "In Staging"
         [] name = "Delivered (DEV)" -> "Implemented"]

\* the pipelines of the source board, in the order of the board
SourcePipelineNames == <<"New Issues", "Backlog", "In Review">>

\* the names the pipelines of the target board are drawn from
TargetPipelineNames == {"New Issues", "In Review", "Code Review"}

\* what make_request returns for a board that is not served
NoBoard == [served |-> FALSE, pipelines |-> <<>>]

\* the source boards: every issue stands in at most one pipeline
SourceBoards ==
    {[served |-> TRUE,
      pipelines |-> [k \in 1..Len(SourcePipelineNames) |->
                       [name |-> SourcePipelineNames[k],
                        issues |-> Ascending({n \in 1..MaxIssues : place[n] = k})]]] :
       place \in [1..MaxIssues -> 0..Len(SourcePipelineNames)]}

\* the target boards: up to MaxColumns pipelines, the names may repeat, the
\* ids are distinct
TargetBoards ==
    {[served |-> TRUE,
      pipelines |-> [k \in 1..Len(names) |-> [name |-> names[k], id |-> k]]] :
       names \in UNION {[1..n -> TargetPipelineNames] : n \in 0..MaxColumns}}

\* lines 164-165 and 176-177: the pipelines of the target board with a name
Named(pipelines, name) == SelectSeq(pipelines, LAMBDA p : p.name = name)

\* faulty variant: the first of several pipelines of the same name is taken
TargetPipelineFirst(pipelines, name) ==
    IF Len(Named(pipelines, name)) >= 1
      THEN <<Named(pipelines, name)[1].id>>
      ELSE <<>>

\* lines 164-190: the id the map gets for a source pipeline, <<>> when it
\* gets none
TargetPipeline(pipelines, name) ==
    IF Len(Named(pipelines, name)) = 1
      THEN <<Named(pipelines, name)[1].id>>
    ELSE IF name \in DOMAIN pipeline_map_exceptions
      THEN LET target_pipeline ==
                   Named(pipelines, pipeline_map_exceptions[name])
           IN  IF Len(target_pipeline) = 1 THEN <<target_pipeline[1].id>>
               ELSE <<>>
    ELSE <<>>

\* lines 160-192: pipeline_map after the first k pipelines of the source board
RECURSIVE PipelineMapUpTo(_, _, _)
PipelineMapUpTo(source, target, k) ==
    IF k = 0 THEN <<>>
    ELSE LET before == PipelineMapUpTo(source, target, k - 1)
             id == TargetPipeline(target, source[k].name)
         IN  IF id = <<>> THEN before
             ELSE [n \in DOMAIN before \cup {source[k].name} |->
                     IF n = source[k].name THEN id[1] ELSE before[n]]

\* lines 181-190: the source pipelines printed as left in 'New Issues'
NotMapped(source, target) ==
    {source[k].name : k \in {j \in 1..Len(source) :
                               TargetPipeline(target, source[j].name) = <<>>}}

\* lines 522-526: the move request for a target issue
MoveReq(issue, pipeline_id) ==
    [method |-> "POST", url |-> "moves", issue |-> issue,
     pipeline_id |-> pipeline_id, position |-> "bottom"]

\* lines 514-526: the requests for the issues of one source pipeline, from
\* issue k on
RECURSIVE MovesOf(_, _, _, _)
MovesOf(source_pipeline, k, map, pmap) ==
    IF k > Len(source_pipeline.issues) THEN <<>>
    ELSE LET n == source_pipeline.issues[k]
         IN  (IF n \in DOMAIN map /\ source_pipeline.name \in DOMAIN pmap
                THEN <<MoveReq(map[n], pmap[source_pipeline.name])>>
                ELSE <<>>)
               \o MovesOf(source_pipeline, k + 1, map, pmap)

\* lines 512-526: the requests for the source pipelines from pipeline k on
RECURSIVE MovesFrom(_, _, _, _)
MovesFrom(source, k, map, pmap) ==
    IF k > Len(source) THEN <<>>
    ELSE (IF source[k].name # "New Issues"
            THEN MovesOf(source[k], 1, map, pmap)
            ELSE <<>>)
           \o MovesFrom(source, k + 1, map, pmap)

\* the issue maps: of the source issues 1..MaxIssues, the target numbers
\* ascending and at most one ahead of the source numbers
PipelineIssueMaps ==
    {f \in EpicMaps : /\ DOMAIN f \subseteq 1..MaxIssues
                     /\ \A n \in DOMAIN f : f[n] <= n + 1}

InitPipeline ==
    /\ b_source \in SourceBoards \cup {NoBoard}
    /\ b_target \in TargetBoards \cup {NoBoard}
    /\ b_issue_map \in PipelineIssueMaps
    /\ pipeline_map = <<>>
    /\ b_printed = {}
    /\ b_sent = <<>>
    /\ b_pc = "complete"
    /\ IdlePaging
    /\ IdleMain
    /\ IdleRewrite
    /\ IdleEpics
    /\ IdlePatch
    /\ IdleZenhub
    /\ IdleAsoc

\* lines 159-192: the boards are served and the map is completed
CompletePipelineMapServed ==
    /\ b_pc = "complete"
    /\ b_source.served /\ b_target.served
    /\ pipeline_map' = PipelineMapUpTo(b_source.pipelines, b_target.pipelines,
                                       Len(b_source.pipelines))
    /\ b_printed' = NotMapped(b_source.pipelines, b_target.pipelines)
    /\ b_pc' = "assign"
    /\ UNCHANGED <<b_source, b_target, b_issue_map, b_sent>>
    /\ UNCHANGED pipelineRest

\* lines 161-164: a board is not served, make_request has returned None and
\* the subscript ['pipelines'] raises TypeError
CompletePipelineMapRaises ==
    /\ b_pc = "complete"
    /\ ~(b_source.served /\ b_target.served)
    /\ b_pc' = "raised"
    /\ UNCHANGED <<b_source, b_target, b_issue_map, pipeline_map, b_printed,
                   b_sent>>
    /\ UNCHANGED pipelineRest

\* lines 507-526: the source board is read again and the issues are moved
AssignIssuesToPipelinesAll ==
    /\ b_pc = "assign"
    /\ \E board_served \in BOOLEAN :
         b_sent' = IF board_served
                     THEN MovesFrom(b_source.pipelines, 1, b_issue_map,
                                    pipeline_map)
                     ELSE <<>>
    /\ b_pc' = "done"
    /\ UNCHANGED <<b_source, b_target, b_issue_map, pipeline_map, b_printed>>
    /\ UNCHANGED pipelineRest

NextPipeline ==
    \/ CompletePipelineMapServed
    \/ CompletePipelineMapRaises
    \/ AssignIssuesToPipelinesAll

SpecPipeline == InitPipeline /\ [][NextPipeline]_vars

-----------------------------------------------------------------------------
(* Properties of the pipeline functions, checked under SpecPipeline *)

\* the positions of the target board that hold a pipeline of that name
TargetsNamed(name) ==
    {j \in 1..Len(b_target.pipelines) : b_target.pipelines[j].name = name}

\* the positions the override table names for a source pipeline
TargetsOverride(name) ==
    IF name \in DOMAIN pipeline_map_exceptions
      THEN TargetsNamed(pipeline_map_exceptions[name])
      ELSE {}

\* the source pipeline an issue stands in, 0 if in none
PipelineOf(n) ==
    IF \E k \in 1..Len(b_source.pipelines) :
         n \in SeqRange(b_source.pipelines[k].issues)
      THEN CHOOSE k \in 1..Len(b_source.pipelines) :
             n \in SeqRange(b_source.pipelines[k].issues)
      ELSE 0

\* C31: the Pipeline Map. Once the boards are served, the map holds for each
\* source pipeline the id of the one target pipeline of the same name, else
\* the id of the one target pipeline the override table names, else nothing;
\* a pipeline without entry is printed and does not end the run (only a board
\* that is not served does); and a move request is sent only for an issue of
\* the Identifier Mapping that stands in a pipeline with an entry other than
\* 'New Issues', to the id of the entry, at most once per issue.
C31_PipelineMap ==
    /\ b_pc = "raised" <=> (b_pc # "complete" /\ ~(b_source.served /\ b_target.served))
    /\ b_pc \in {"assign", "done"} =>
         \A k \in 1..Len(b_source.pipelines) :
           LET name == b_source.pipelines[k].name
           IN  IF Cardinality(TargetsNamed(name)) = 1
                 THEN /\ name \in DOMAIN pipeline_map
                      /\ \E j \in TargetsNamed(name) :
                           pipeline_map[name] = b_target.pipelines[j].id
                      /\ name \notin b_printed
               ELSE IF Cardinality(TargetsOverride(name)) = 1
                 THEN /\ name \in DOMAIN pipeline_map
                      /\ \E j \in TargetsOverride(name) :
                           pipeline_map[name] = b_target.pipelines[j].id
                      /\ name \notin b_printed
               ELSE /\ name \notin DOMAIN pipeline_map
                    /\ name \in b_printed
    /\ b_pc = "done" =>
         /\ \A r \in SeqRange(b_sent) :
              \E n \in DOMAIN b_issue_map :
                /\ r.issue = b_issue_map[n]
                /\ PipelineOf(n) # 0
                /\ LET name == b_source.pipelines[PipelineOf(n)].name
                   IN  /\ name # "New Issues"
                       /\ name \in DOMAIN pipeline_map
                       /\ r.pipeline_id = pipeline_map[name]
         /\ \A a, c \in 1..Len(b_sent) : b_sent[a].issue = b_sent[c].issue => a = c

\* 'In Review' stands twice in the target board and is mapped through the
\* override table, 'Backlog' has no entry, and of the two migrated issues the
\* one in 'In Review' is moved and the one in 'Backlog' is not
C31_Witness ==
    /\ b_pc = "done"
    /\ Cardinality(TargetsNamed("In Review")) = 2
    /\ Cardinality(TargetsNamed("Code Review")) = 1
    /\ "Backlog" \in b_printed
    /\ DOMAIN b_issue_map = {1, 2}
    /\ PipelineOf(1) = 2 /\ PipelineOf(2) = 3
    /\ Len(b_sent) = 1 /\ b_sent[1].issue = b_issue_map[2]

-----------------------------------------------------------------------------
(* APIInvoker.invoke, src/get_asoc_results.py lines 103-150, called for a  *)
(* list that the server returns in pages: each page is a dict with 'Items' *)
(* and, except the last, a 'NextPageLink'                                  *)

AsocStatuses == {200, 201, 404, 500}

\* the 'Items' of page k
Items(k) == <<2 * k - 1, 2 * k>>

RECURSIVE ItemsUpTo(_)
ItemsUpTo(k) == IF k = 0 THEN <<>> ELSE ItemsUpTo(k - 1) \o Items(k)

\* the values of the local variable items: a list, or None
ListOf(seq) == <<"list", seq>>
NoItems == <<"None">>

\* a running call of invoke
Frame(page, status, items, at) ==
    [page |-> page, status |-> status, items |-> items, at |-> at]

Top == a_stack[Len(a_stack)]

\* the stack with its innermost call replaced
WithTop(frame) == [a_stack EXCEPT ![Len(a_stack)] = frame]

\* an exception leaves invoke: no call on the stack catches it
RaiseInvoke(exception) ==
    /\ a_outcome' = "raised"
    /\ a_returned' = <<"exception", exception>>
    /\ a_stack' = <<>>

InitInvoke ==
    /\ a_pages \in 1..MaxPages
    /\ a_stack = <<Frame(1, 0, NoItems, "request")>>
    /\ a_requests = <<>>
    /\ a_outcome = "running"
    /\ a_returned = <<>>
    /\ IdlePaging
    /\ IdleMain
    /\ IdleRewrite
    /\ IdleEpics
    /\ IdlePatch
    /\ IdleZenhub
    /\ IdlePipeline
    /\ IdleReports

\* lines 115-123: the request is answered with a status above 204
InvokeRefused ==
    /\ a_outcome = "running" /\ Top.at = "request"
    /\ \E status \in AsocStatuses :
         /\ status > 204
         /\ a_requests' = Append(a_requests, [page |-> Top.page, status |-> status])
    /\ RaiseInvoke("Exception")
    /\ UNCHANGED a_pages
    /\ UNCHANGED invokeRest

\* lines 115-133: a page with a NextPageLink is served; items holds its
\* 'Items' and the call enters the while loop
InvokePage ==
    /\ a_outcome = "running" /\ Top.at = "request"
    /\ Top.page < a_pages
    /\ \E status \in AsocStatuses :
         /\ status <= 204
         /\ a_requests' = Append(a_requests, [page |-> Top.page, status |-> status])
         /\ a_stack' = WithTop(Frame(Top.page, status, ListOf(Items(Top.page)),
                                     "while"))
    /\ UNCHANGED <<a_pages, a_outcome, a_returned>>
    /\ UNCHANGED invokeRest

\* lines 115-133, 149: the page without a NextPageLink is served; the call
\* returns its 'Items' to its caller
InvokeLastPage ==
    /\ a_outcome = "running" /\ Top.at = "request"
    /\ Top.page = a_pages
    /\ \E status \in AsocStatuses :
         /\ status <= 204
         /\ a_requests' = Append(a_requests, [page |-> Top.page, status |-> status])
    /\ IF Len(a_stack) = 1
         THEN /\ a_outcome' = "returned"
              /\ a_returned' = <<"value", ListOf(Items(Top.page))>>
              /\ a_stack' = <<>>
         ELSE /\ a_stack' = [k \in 1..(Len(a_stack) - 1) |->
                               IF k = Len(a_stack) - 1
                                 THEN [a_stack[k] EXCEPT !.at = "called"]
                                 ELSE a_stack[k]]
              /\ UNCHANGED <<a_outcome, a_returned>>
    /\ UNCHANGED a_pages
    /\ UNCHANGED invokeRest

\* lines 133-135: next_page is not None, invoke is called for it; what the
\* call returns is not assigned
InvokeNextPage ==
    /\ a_outcome = "running" /\ Top.at = "while"
    /\ a_stack' = Append(a_stack, Frame(Top.page + 1, 0, NoItems, "request"))
    /\ UNCHANGED <<a_pages, a_requests, a_outcome, a_returned>>
    /\ UNCHANGED invokeRest

\* lines 136-140, after the inner call has returned: response is still the
\* response of this call, so its status is tested, results and next_page are
\* read from it once more, and items becomes what list.append returns, None;
\* None.append raises AttributeError
InvokeAfterCall ==
    /\ a_outcome = "running" /\ Top.at = "called"
    /\ IF Top.status # 200
         THEN RaiseInvoke("Exception")
         ELSE IF Top.items = NoItems
           THEN RaiseInvoke("AttributeError")
           ELSE /\ a_stack' = WithTop(Frame(Top.page, Top.status, NoItems, "while"))
                /\ UNCHANGED <<a_outcome, a_returned>>
    /\ UNCHANGED <<a_pages, a_requests>>
    /\ UNCHANGED invokeRest

NextInvoke ==
    \/ InvokeRefused
    \/ InvokePage
    \/ InvokeLastPage
    \/ InvokeNextPage
    \/ InvokeAfterCall

SpecInvoke == InitInvoke /\ [][NextInvoke]_vars

-----------------------------------------------------------------------------
(* Properties of APIInvoker.invoke, checked under SpecInvoke *)

\* C38: ASoC paging. When every request is answered 200, invoke requests the
\* pages one after the other, each once, up to the page without NextPageLink,
\* raises nothing, and returns the Items of all pages in order as one flat
\* list.
C38_PagingFollowsLinks ==
    (\A i \in 1..Len(a_requests) : a_requests[i].status = 200) =>
      /\ a_outcome # "raised"
      /\ \A i \in 1..Len(a_requests) : a_requests[i].page = i
      /\ a_outcome = "returned" =>
           /\ a_returned = <<"value", ListOf(ItemsUpTo(a_pages))>>
           /\ Len(a_requests) = a_pages

-----------------------------------------------------------------------------
(* wait_on_reports_and_print, src/get_asoc_results.py lines 231-254 *)

\* lines 236-238: the status the server answers for a report
StatusOf(report) == IF rp_ready[report] THEN "Ready" ELSE "Running"

\* faulty variant: a report is downloaded whatever its status is
IsReadyAny(status) == TRUE

\* line 239
IsReady(status) == status = "Ready"

\* line 249: list.remove, the first element equal to x is taken out
RECURSIVE Remove(_, _)
Remove(list, x) ==
    IF list = <<>> THEN <<>>
    ELSE IF Head(list) = x THEN Tail(list)
    ELSE <<Head(list)>> \o Remove(Tail(list), x)

InitReports ==
    /\ \E n \in 0..MaxReports :
         /\ reports = [k \in 1..n |-> k]
         /\ rp_ready \in [1..n -> BOOLEAN]
    /\ rp_next = 1
    /\ rp_downloaded = <<>>
    /\ rp_pc = "while"
    /\ IdlePaging
    /\ IdleMain
    /\ IdleRewrite
    /\ IdleEpics
    /\ IdlePatch
    /\ IdleZenhub
    /\ IdlePipeline
    /\ IdleInvoke

\* line 233: the while test; the for loop starts with a new iterator, or the
\* function returns
WhileReports ==
    /\ rp_pc = "while"
    /\ IF Len(reports) > 0
         THEN rp_pc' = "for" /\ rp_next' = 1
         ELSE rp_pc' = "done" /\ UNCHANGED rp_next
    /\ UNCHANGED <<reports, rp_ready, rp_downloaded>>
    /\ UNCHANGED reportRest

\* lines 234-249: the iterator yields the element at its index and moves on
\* by one; the report is polled and, if ready, downloaded and removed from
\* the list the iterator runs over
ForReport ==
    /\ rp_pc = "for" /\ rp_next <= Len(reports)
    /\ LET report == reports[rp_next]
           status == StatusOf(report)
       IN  IF IsReady(status)
             THEN /\ rp_downloaded' = Append(rp_downloaded,
                                             [report |-> report, status |-> status])
                  /\ reports' = Remove(reports, report)
             ELSE UNCHANGED <<reports, rp_downloaded>>
    /\ rp_next' = rp_next + 1
    /\ UNCHANGED <<rp_ready, rp_pc>>
    /\ UNCHANGED reportRest

\* lines 234, 252-254: the iterator is exhausted; the function sleeps if
\* reports are left
ForEnd ==
    /\ rp_pc = "for" /\ rp_next > Len(reports)
    /\ rp_pc' = IF Len(reports) > 0 THEN "sleep" ELSE "while"
    /\ UNCHANGED <<reports, rp_next, rp_ready, rp_downloaded>>
    /\ UNCHANGED reportRest

\* line 254: time.sleep(REPORT_WAIT_INTERVAL) is over
SleepReports ==
    /\ rp_pc = "sleep"
    /\ rp_pc' = "while"
    /\ UNCHANGED <<reports, rp_next, rp_ready, rp_downloaded>>
    /\ UNCHANGED reportRest

\* the server finishes the generation of a report
BecomeReady(r) ==
    /\ rp_pc \notin {"idle", "done"}
    /\ r \in DOMAIN rp_ready /\ ~rp_ready[r]
    /\ rp_ready' = [rp_ready EXCEPT ![r] = TRUE]
    /\ UNCHANGED <<reports, rp_next, rp_downloaded, rp_pc>>
    /\ UNCHANGED reportRest

\* the steps of wait_on_reports_and_print
StepReports ==
    \/ WhileReports
    \/ ForReport
    \/ ForEnd
    \/ SleepReports

NextReports ==
    \/ StepReports
    \/ \E r \in 1..MaxReports : BecomeReady(r)

SpecReports == InitReports /\ [][NextReports]_vars

\* the script keeps running, and every report that is not ready becomes ready
FairSpecReports ==
    /\ SpecReports
    /\ WF_vars(StepReports)
    /\ \A r \in 1..MaxReports : WF_vars(BecomeReady(r))

-----------------------------------------------------------------------------
(* Properties of wait_on_reports_and_print, checked under FairSpecReports *)

Downloaded == {rp_downloaded[i].report : i \in 1..Len(rp_downloaded)}

\* C39: ASoC report polling. When every report becomes ready at some time,
\* wait_on_reports_and_print returns; no report is downloaded twice, none
\* whose status polled last was not 'Ready', none is both downloaded and
\* still in the list; and when the function returns the list is empty and
\* every submitted report has been downloaded.
C39_ReportsPolled ==
    /\ <>(rp_pc = "done")
    /\ [](/\ \A i \in 1..Len(rp_downloaded) : rp_downloaded[i].status = "Ready"
          /\ \A i, j \in 1..Len(rp_downloaded) :
               rp_downloaded[i].report = rp_downloaded[j].report => i = j
          /\ Downloaded \cap SeqRange(reports) = {}
          /\ rp_pc = "done" =>
               /\ reports = <<>>
               /\ Downloaded = DOMAIN rp_ready)

\* three reports, downloaded in another order than they were submitted in:
\* the last became ready first, and the second was passed over by the
\* iterator when the first was removed
C39_Witness ==
    /\ rp_pc = "done" /\ Len(rp_downloaded) = 3
    /\ rp_downloaded[1].report = 3 /\ rp_downloaded[2].report = 1
    /\ rp_downloaded[3].report = 2

====
